---------------------------- MODULE Spec2Model ----------------------------
(***************************************************************************)
(* Model of the WebTerminal session broker (TerminalServer, the package    *)
(* revision packages/my-package/server/main.js) together with the parts of *)
(* ContainerService / DockerManager it drives.                             *)
(*                                                                         *)
(* A "session object" is the record built by handleSSHConnect.  The SSH    *)
(* listeners and the connect timer close over that object, so an object    *)
(* keeps living (and its callbacks keep firing) after it has been removed  *)
(* from activeSessions.  Objects are therefore modelled with an identity   *)
(* (1..MaxAttempts) and activeSessions maps a socket id to an object id    *)
(* (0 = no entry).                                                         *)
(***************************************************************************)
EXTENDS Integers, Sequences, FiniteSets, TLC

(***************************************************************************)
(* Bounds of the model.                                                    *)
(***************************************************************************)
MaxAttempts == 2
MaxContainers == 1
MaxRuns == 2
MaxJobs == 2
MaxBuilds == 3
MaxInputs == 2
MaxChunks == 2
MaxWindows == 1

(***************************************************************************)
(* Program constants.                                                      *)
(***************************************************************************)
MIN_CONNECTION_INTERVAL == 2000
CONNECTION_TIMEOUT == 30000
CONTAINER_READY_GRACE == 2000
STUCK_CONNECTING == 60000
START_PORT == 2222
IDLE_TIMEOUT == 1800000

Sockets == {1}
JobSlots == 1..MaxJobs
FreeJob == [phase |-> "free", cid |-> 0, port |-> 0]
Attempts == 1..MaxAttempts
ContainerIds == 1..MaxRuns

NoReason == "null"

VARIABLES
  sockets,               \* io.sockets.sockets: the live socket ids
  everOpened,            \* socket ids already handed out by socket.io
  isSocketConnected,     \* handleConnection's closure flag, per socket
  sinceLastAttempt,      \* per socket: Date.now() - lastConnectionAttempt
  activeSessions,        \* socket id -> session object id, 0 when absent
  obj,                   \* session objects with their conn / stream / timer
  nextAttempt,           \* next session object to allocate
  creating,              \* per socket: createSSHContainer calls awaited
  delayed,               \* pending 2 s setTimeout callbacks of create-container
  activeContainers,      \* DockerManager.activeContainers (ids)
  sessionContainers,     \* ContainerService.sessionContainers: id -> socket id
  nextContainer,         \* next container id the runtime returns
  running,               \* ids of the containers the docker runtime runs
  portOf,                \* per container: the host port docker run published
  sweepQueue,            \* cleanupIdleContainers in progress: containers still to
                         \* stop, the first being stopped now
  containerIdle,         \* per container record: now - lastActivity
  builds,                \* docker build commands started so far
  jobs,                  \* createSSHContainer calls of the HTTP route, by slot
  reply,                 \* outcome of the last HTTP request or sweep
  server,                \* the process: its two sweep intervals, whether it exited
  shellIn,               \* per session object: data written to its stream
  clientOut,             \* per socket: terminal:output chunks sent to it
  nextInput,             \* next terminal:input payload of the client
  emitted,               \* messages sent to clients by the last step
  hist                   \* history of the run, read by the properties only

vars == <<sockets, everOpened, isSocketConnected, sinceLastAttempt,
          activeSessions, obj, nextAttempt, creating, delayed,
          activeContainers, sessionContainers, nextContainer, running, portOf,
          sweepQueue, containerIdle, builds, jobs, reply, server, shellIn,
          clientOut, nextInput, emitted, hist>>

(***************************************************************************)
(* Credentials as the client (or the create-container handler) sends them. *)
(* Strings are kept as strings; trim() maps a blank string to "".          *)
(***************************************************************************)
Trim(s) == IF s = " " THEN "" ELSE s

ExternalCredentials ==
  [host |-> "example.org", port |-> 22, username |-> "user", useKeyAuth |-> FALSE,
   password |-> "secret", privateKey |-> "", containerId |-> 0]

ContainerCredentials(c) ==
  [host |-> "localhost", port |-> START_PORT + c - 1, username |-> "root",
   useKeyAuth |-> FALSE, password |-> "password123", privateKey |-> "",
   containerId |-> c]

\* Key authentication with a private key that ssh2 cannot parse: it passes
\* validateCredentials, and conn.connect() throws on it.
KeyCredentials ==
  [ExternalCredentials EXCEPT !.useKeyAuth = TRUE, !.password = "",
                              !.privateKey = "not a key"]

InvalidCredentials ==
  { [ExternalCredentials EXCEPT !.host = " "] }

\* Credentials a client may send that validateCredentials has to refuse.
RejectedCredentials ==
  { [ExternalCredentials EXCEPT !.host = ""],
    [ExternalCredentials EXCEPT !.host = " "],
    [ExternalCredentials EXCEPT !.port = 0],
    [ExternalCredentials EXCEPT !.port = 65536],
    [ExternalCredentials EXCEPT !.username = " "],
    [ExternalCredentials EXCEPT !.password = ""],
    [ExternalCredentials EXCEPT !.useKeyAuth = TRUE, !.privateKey = " "] }

ClientCredentials ==
  {ExternalCredentials} \cup {ContainerCredentials(c) : c \in 1..MaxContainers}
    \cup InvalidCredentials

\* A faulty variant of validateCredentials that does not look at the port.
validateCredentials_anyPort(credentials) ==
  IF credentials.host = "" \/ Trim(credentials.host) = ""
    THEN [valid |-> FALSE, error |-> "Host is required"]
  ELSE IF credentials.username = "" \/ Trim(credentials.username) = ""
    THEN [valid |-> FALSE, error |-> "Username is required"]
  ELSE IF credentials.useKeyAuth
    THEN (IF credentials.privateKey = "" \/ Trim(credentials.privateKey) = ""
            THEN [valid |-> FALSE,
                  error |-> "Private key is required for key authentication"]
            ELSE [valid |-> TRUE, error |-> ""])
  ELSE IF credentials.password = "" \/ Trim(credentials.password) = ""
    THEN [valid |-> FALSE, error |-> "Password is required"]
  ELSE [valid |-> TRUE, error |-> ""]

validateCredentials(credentials) ==
  IF credentials.host = "" \/ Trim(credentials.host) = ""
    THEN [valid |-> FALSE, error |-> "Host is required"]
  ELSE IF credentials.port = 0 \/ credentials.port < 1 \/ credentials.port > 65535
    THEN [valid |-> FALSE, error |-> "Valid port number (1-65535) is required"]
  ELSE IF credentials.username = "" \/ Trim(credentials.username) = ""
    THEN [valid |-> FALSE, error |-> "Username is required"]
  ELSE IF credentials.useKeyAuth
    THEN (IF credentials.privateKey = "" \/ Trim(credentials.privateKey) = ""
            THEN [valid |-> FALSE,
                  error |-> "Private key is required for key authentication"]
            ELSE [valid |-> TRUE, error |-> ""])
  ELSE IF credentials.password = "" \/ Trim(credentials.password) = ""
    THEN [valid |-> FALSE, error |-> "Password is required"]
  ELSE [valid |-> TRUE, error |-> ""]

sanitizeCredentials(credentials) ==
  [host |-> credentials.host, port |-> credentials.port,
   username |-> credentials.username, useKeyAuth |-> credentials.useKeyAuth,
   containerId |-> credentials.containerId]

NoCredentials ==
  [host |-> "", port |-> 0, username |-> "", useKeyAuth |-> FALSE, containerId |-> 0]

(***************************************************************************)
(* A session object before handleSSHConnect has built it.                  *)
(***************************************************************************)
FreshObject ==
  [alloc |-> FALSE, socketId |-> 0, credentials |-> NoCredentials,
   isConnecting |-> FALSE, isConnected |-> FALSE, stream |-> FALSE,
   containerId |-> 0, age |-> 0,
   connListeners |-> FALSE, connEnded |-> FALSE, timer |-> FALSE,
   sshReady |-> FALSE, chan |-> "none",
   streamListeners |-> FALSE, writable |-> FALSE, produced |-> 0, idle |-> 0,
   announced |-> FALSE, timedOut |-> FALSE, expectIn |-> <<>>, expectOut |-> <<>>,
   window |-> <<0, 0>>]

(***************************************************************************)
(* The heap the handlers work on: a handler is a function from heap to     *)
(* heap, so that the calls one handler makes compose in program order.     *)
(***************************************************************************)
NoReply == [kind |-> "none", ok |-> TRUE, count |-> 0]

Heap ==
  [sockets |-> sockets, activeSessions |-> activeSessions, obj |-> obj,
   nextAttempt |-> nextAttempt, shellIn |-> shellIn, clientOut |-> clientOut,
   activeContainers |-> activeContainers, sessionContainers |-> sessionContainers,
   running |-> running, portOf |-> portOf, sweepQueue |-> sweepQueue,
   containerIdle |-> containerIdle, builds |-> builds,
   jobs |-> jobs, reply |-> NoReply, server |-> server,
   emitted |-> <<>>]

Commit(h) ==
  /\ sockets' = h.sockets
  /\ activeSessions' = h.activeSessions
  /\ obj' = h.obj
  /\ nextAttempt' = h.nextAttempt
  /\ shellIn' = h.shellIn
  /\ clientOut' = h.clientOut
  /\ activeContainers' = h.activeContainers
  /\ sessionContainers' = h.sessionContainers
  /\ running' = h.running
  /\ portOf' = h.portOf
  /\ sweepQueue' = h.sweepQueue
  /\ containerIdle' = h.containerIdle
  /\ builds' = h.builds
  /\ jobs' = h.jobs
  /\ reply' = h.reply
  /\ server' = h.server
  /\ emitted' = h.emitted

Message(s, ev, text, cid) == [to |-> s, ev |-> ev, text |-> text, cid |-> cid]

\* socket.emit: a packet for a socket that has disconnected is discarded.
Emit(h, s, ev, text, cid) ==
  IF s \in h.sockets
    THEN [h EXCEPT !.emitted = Append(@, Message(s, ev, text, cid))]
    ELSE h


(***************************************************************************)
(* Faulty variants of handleSSHDisconnect: one that leaves the listeners   *)
(* on conn, one that also stops the session's container, one that leaves   *)
(* the record in activeSessions.                                           *)
(***************************************************************************)
handleSSHDisconnect_keepsListeners(h, socketId, reason) ==
  LET a == h.activeSessions[socketId] IN
  IF a = 0 THEN h
  ELSE
    LET o == h.obj[a]
        endStream == o.stream /\ o.writable
        closed == [o EXCEPT !.isConnecting = FALSE,
                            !.isConnected = FALSE,
                            !.streamListeners = IF endStream THEN FALSE ELSE @,
                            !.writable = IF endStream THEN FALSE ELSE @,
                            !.connEnded = TRUE]
        h1 == [h EXCEPT !.obj[a] = closed]
        h2 == IF socketId \in h1.sockets /\ reason # NoReason
                THEN Emit(h1, socketId, "terminal:disconnected", reason, 0)
                ELSE h1
    IN [h2 EXCEPT !.activeSessions[socketId] = 0]

handleSSHDisconnect_stopsContainer(h, socketId, reason) ==
  LET a == h.activeSessions[socketId] IN
  IF a = 0 THEN h
  ELSE
    LET o == h.obj[a]
        endStream == o.stream /\ o.writable
        closed == [o EXCEPT !.isConnecting = FALSE,
                            !.isConnected = FALSE,
                            !.streamListeners = IF endStream THEN FALSE ELSE @,
                            !.writable = IF endStream THEN FALSE ELSE @,
                            !.connListeners = FALSE,
                            !.connEnded = TRUE]
        h1 == [h EXCEPT !.obj[a] = closed,
                        !.activeContainers = @ \ {o.containerId}]
        h2 == IF socketId \in h1.sockets /\ reason # NoReason
                THEN Emit(h1, socketId, "terminal:disconnected", reason, 0)
                ELSE h1
    IN [h2 EXCEPT !.activeSessions[socketId] = 0]

handleSSHDisconnect_keepsRecord(h, socketId, reason) ==
  LET a == h.activeSessions[socketId] IN
  IF a = 0 THEN h
  ELSE
    LET o == h.obj[a]
        endStream == o.stream /\ o.writable
        closed == [o EXCEPT !.isConnecting = FALSE,
                            !.isConnected = FALSE,
                            !.streamListeners = IF endStream THEN FALSE ELSE @,
                            !.writable = IF endStream THEN FALSE ELSE @,
                            !.connListeners = FALSE,
                            !.connEnded = TRUE]
        h1 == [h EXCEPT !.obj[a] = closed]
    IN IF socketId \in h1.sockets /\ reason # NoReason
         THEN Emit(h1, socketId, "terminal:disconnected", reason, 0)
         ELSE h1

\* A faulty variant of handleSSHDisconnect that never tells the client.
handleSSHDisconnect_silent(h, socketId, reason) ==
  LET a == h.activeSessions[socketId] IN
  IF a = 0 THEN h
  ELSE
    LET o == h.obj[a]
        endStream == o.stream /\ o.writable
        closed == [o EXCEPT !.isConnecting = FALSE,
                            !.isConnected = FALSE,
                            !.streamListeners = IF endStream THEN FALSE ELSE @,
                            !.writable = IF endStream THEN FALSE ELSE @,
                            !.connListeners = FALSE,
                            !.connEnded = TRUE]
    IN [h EXCEPT !.obj[a] = closed, !.activeSessions[socketId] = 0]

(***************************************************************************)
(* handleSSHDisconnect(socketId, reason)                                   *)
(***************************************************************************)
\* A faulty variant that reports the disconnect even when the socket has no
\* session.
handleSSHDisconnect_absentToo(h, socketId, reason) ==
  IF h.activeSessions[socketId] = 0
    THEN Emit(h, socketId, "terminal:disconnected", reason, 0)
    ELSE handleSSHDisconnect_silent(
           Emit(h, socketId, "terminal:disconnected", reason, 0), socketId, reason)

handleSSHDisconnect(h, socketId, reason) ==
  LET a == h.activeSessions[socketId] IN
  IF a = 0 THEN h
  ELSE
    LET o == h.obj[a]
        endStream == o.stream /\ o.writable
        closed == [o EXCEPT !.isConnecting = FALSE,
                            !.isConnected = FALSE,
                            !.streamListeners = IF endStream THEN FALSE ELSE @,
                            !.writable = IF endStream THEN FALSE ELSE @,
                            !.connListeners = FALSE,
                            !.connEnded = TRUE]
        h1 == [h EXCEPT !.obj[a] = closed]
        h2 == IF socketId \in h1.sockets /\ reason # NoReason
                THEN Emit(h1, socketId, "terminal:disconnected", reason, 0)
                ELSE h1
    IN [h2 EXCEPT !.activeSessions[socketId] = 0]

(***************************************************************************)
(* handleSSHConnect(socket, credentials), up to conn.connect(): the        *)
(* listeners and the 30 s timer it installs are the actions further down.  *)
(***************************************************************************)
handleSSHConnect(h, socketId, credentials) ==
  LET validation == validateCredentials(credentials) IN
  IF ~validation.valid
    THEN Emit(h, socketId, "terminal:error", validation.error, 0)
  ELSE
    LET h1 == IF h.activeSessions[socketId] # 0
                THEN handleSSHDisconnect(h, socketId, NoReason)
                ELSE h
        a == h1.nextAttempt
        session == [FreshObject EXCEPT
                      !.alloc = TRUE,
                      !.socketId = socketId,
                      !.credentials = sanitizeCredentials(credentials),
                      !.age = 0,
                      !.isConnecting = TRUE,
                      !.isConnected = FALSE,
                      !.containerId = credentials.containerId,
                      !.connListeners = TRUE,
                      !.timer = TRUE]
    IN IF a \in Attempts
         THEN [h1 EXCEPT !.obj[a] = session,
                         !.activeSessions[socketId] = a,
                         !.nextAttempt = a + 1]
         ELSE [h1 EXCEPT !.nextAttempt = a + 1]

\* A step that would build more session objects than the model holds is cut.
WithinAttempts(h) == h.nextAttempt <= MaxAttempts + 1

\* DockerManager.updateContainerActivity(containerId)
updateContainerActivity(h, containerId) ==
  IF containerId \in h.activeContainers
    THEN [h EXCEPT !.containerIdle[containerId] = 0]
    ELSE h

\* A faulty variant of handleTerminalInput that trusts the isConnected flag
\* alone.
handleTerminalInput_flagOnly(h, socketId, data) ==
  LET a == h.activeSessions[socketId] IN
  IF a # 0 /\ h.obj[a].isConnected
    THEN [h EXCEPT !.shellIn[a] = Append(@, data)]
    ELSE h

(***************************************************************************)
(* handleTerminalInput(socketId, data)                                     *)
(***************************************************************************)
handleTerminalInput(h, socketId, data) ==
  LET a == h.activeSessions[socketId] IN
  IF a # 0 /\ h.obj[a].stream /\ h.obj[a].writable /\ h.obj[a].isConnected
    THEN LET h1 == [h EXCEPT !.shellIn[a] = Append(@, data), !.obj[a].idle = 0]
         IN IF h.obj[a].containerId # 0
              THEN updateContainerActivity(h1, h.obj[a].containerId)
              ELSE h1
    ELSE h

\* Faulty variants of the two checks of the terminal:connect handler: a rate
\* limit that also rejects at exactly the interval, a busy check that looks
\* at isConnecting only.
RateLimited_inclusive(s) == sinceLastAttempt[s] <= MIN_CONNECTION_INTERVAL

Busy_connectingOnly(h, s) ==
  /\ h.activeSessions[s] # 0
  /\ h.obj[h.activeSessions[s]].isConnecting

(***************************************************************************)
(* The terminal:connect handler: the rate limit, then the busy check.      *)
(***************************************************************************)
RateLimited(s) == sinceLastAttempt[s] < MIN_CONNECTION_INTERVAL

Busy(h, s) ==
  /\ h.activeSessions[s] # 0
  /\ (h.obj[h.activeSessions[s]].isConnecting \/ h.obj[h.activeSessions[s]].isConnected)

onTerminalConnect(h, s, credentials) ==
  IF Busy(h, s)
    THEN Emit(h, s, "terminal:error", "Connection already in progress or established", 0)
    ELSE handleSSHConnect(h, s, credentials)

(***************************************************************************)
(* The listeners handleSSHConnect puts on conn, the shell callback and the *)
(* listeners the callback puts on the stream; a is the session object the  *)
(* closure holds.                                                          *)
(***************************************************************************)
errorMessage(err) ==
  CASE err = "ECONNREFUSED" -> "Connection refused - check host and port"
    [] err = "ENOTFOUND" -> "Host not found"
    [] err = "EHOSTUNREACH" -> "Host unreachable"
    [] err = "ETIMEDOUT" -> "Connection timeout"
    [] err = "authentication" -> "Authentication failed - check username and password"
    [] err = "protocol" -> "Protocol error - incompatible SSH server"
    [] OTHER -> "Unknown connection error"

ErrorKinds == {"authentication"}

\* A faulty variant of the 'ready' listener that leaves isConnecting set.
onReady_keepsConnecting(h, a) ==
  [h EXCEPT !.obj[a].timer = FALSE,
            !.obj[a].isConnected = TRUE,
            !.obj[a].chan = "pending"]

onReady(h, a) ==
  [h EXCEPT !.obj[a].timer = FALSE,
            !.obj[a].isConnecting = FALSE,
            !.obj[a].isConnected = TRUE,
            !.obj[a].chan = "pending"]

\* A faulty variant of the shell callback's error branch that reports the
\* error and leaves the session as it is.
onShellError_reportOnly(h, a) ==
  Emit(h, h.obj[a].socketId, "terminal:error", "Shell error", 0)

onShellError(h, a) ==
  LET s == h.obj[a].socketId
      h1 == Emit(h, s, "terminal:error", "Shell error", 0)
  IN handleSSHDisconnect(h1, s, NoReason)

onShellStream(h, a) ==
  LET s == h.obj[a].socketId
      h1 == [h EXCEPT !.obj[a].stream = TRUE,
                      !.obj[a].writable = TRUE,
                      !.obj[a].streamListeners = TRUE,
                      !.obj[a].announced = (s \in h.sockets)]
  IN Emit(h1, s, "terminal:connected", "", h.obj[a].credentials.containerId)

onConnError(h, a, err) ==
  LET s == h.obj[a].socketId
      h1 == [h EXCEPT !.obj[a].timer = FALSE, !.obj[a].isConnecting = FALSE]
      h2 == Emit(h1, s, "terminal:error", errorMessage(err), 0)
  IN handleSSHDisconnect(h2, s, NoReason)

onConnClosed(h, a, reason) ==
  LET s == h.obj[a].socketId
      h1 == [h EXCEPT !.obj[a].timer = FALSE,
                      !.obj[a].isConnecting = FALSE,
                      !.obj[a].isConnected = FALSE]
      h2 == Emit(h1, s, "terminal:disconnected", reason, 0)
  IN handleSSHDisconnect(h2, s, NoReason)

\* A faulty variant of the data listener that emits each chunk twice.
onStreamData_twice(h, a, chunk) ==
  LET s == h.obj[a].socketId IN
  IF s \in h.sockets
    THEN [h EXCEPT !.clientOut[s] = Append(Append(@, <<a, chunk>>), <<a, chunk>>)]
    ELSE h

onStreamData(h, a, chunk) ==
  LET s == h.obj[a].socketId
      h1 == IF s \in h.sockets
              THEN [h EXCEPT !.clientOut[s] = Append(@, <<a, chunk>>)]
              ELSE h
      h2 == [h1 EXCEPT !.obj[a].idle = 0]
  IN IF h.obj[a].containerId # 0
       THEN updateContainerActivity(h2, h.obj[a].containerId)
       ELSE h2

\* stream.stderr.on('data'): as the data listener, without the container's
\* activity.
onStderrData(h, a, chunk) ==
  LET s == h.obj[a].socketId
      h1 == IF s \in h.sockets
              THEN [h EXCEPT !.clientOut[s] = Append(@, <<a, chunk>>)]
              ELSE h
  IN [h1 EXCEPT !.obj[a].idle = 0]

onStreamClose(h, a) ==
  LET s == h.obj[a].socketId
      h1 == Emit(h, s, "terminal:disconnected", "stream_closed", 0)
  IN handleSSHDisconnect(h1, s, NoReason)

onStreamError(h, a) ==
  LET s == h.obj[a].socketId
      h1 == Emit(h, s, "terminal:error", "Stream error", 0)
  IN handleSSHDisconnect(h1, s, NoReason)

\* A faulty variant of the connect timer that does not look at the session's
\* flags before it acts.
onConnectionTimeout_unchecked(h, a) ==
  LET s == h.obj[a].socketId
      h0 == [h EXCEPT !.obj[a].timer = FALSE, !.obj[a].timedOut = TRUE]
  IN handleSSHDisconnect(
       Emit(h0, s, "terminal:error", "Connection timeout", 0), s, NoReason)

\* A faulty variant of the connect timer that reports the timeout and leaves
\* the session as it is.
onConnectionTimeout_reportOnly(h, a) ==
  LET s == h.obj[a].socketId
      h0 == [h EXCEPT !.obj[a].timer = FALSE]
  IN IF h.obj[a].isConnecting /\ ~h.obj[a].isConnected
       THEN Emit([h0 EXCEPT !.obj[a].timedOut = TRUE],
                 s, "terminal:error", "Connection timeout", 0)
       ELSE h0

onConnectionTimeout(h, a) ==
  LET s == h.obj[a].socketId
      h0 == [h EXCEPT !.obj[a].timer = FALSE]
  IN IF h.obj[a].isConnecting /\ ~h.obj[a].isConnected
       THEN handleSSHDisconnect(
              Emit([h0 EXCEPT !.obj[a].timedOut = TRUE],
                   s, "terminal:error", "Connection timeout", 0),
              s, NoReason)
       ELSE h0

(***************************************************************************)
(* The state a client sees as Connected: terminal:connected was sent for   *)
(* the session of its channel and no exit path has been triggered (the     *)
(* peer has not closed the shell channel, the session is not torn down).   *)
(***************************************************************************)
ConnectedOpen(a) ==
  /\ obj[a].alloc
  /\ activeSessions[obj[a].socketId] = a
  /\ obj[a].isConnected
  /\ obj[a].announced
  /\ obj[a].chan = "open"

\* terminal:connected has not been sent for the session of channel s.
BeforeConnected(s) == activeSessions[s] = 0 \/ ~obj[activeSessions[s]].announced

\* Between SSH 'ready' and the shell callback: flagged connected, no stream.
InShellWindow(s) ==
  /\ activeSessions[s] # 0
  /\ obj[activeSessions[s]].isConnected
  /\ obj[activeSessions[s]].chan = "pending"

RECURSIVE SumProduced(_)
SumProduced(n) == IF n = 0 THEN 0 ELSE obj[n].produced + SumProduced(n - 1)

(***************************************************************************)
(* Time.  The program reads the clock only to subtract a stored timestamp  *)
(* from it, so the model keeps, for each timestamp, the time elapsed since *)
(* it (Date.now() - lastConnectionAttempt, now - session.connectedAt),     *)
(* saturated just above the largest constant it is compared with, and for  *)
(* each setTimeout the time left.  Waits are the delays something is       *)
(* waiting for: the pending timers and the open rate-limit windows.        *)
(***************************************************************************)
HALF_WINDOW == MIN_CONNECTION_INTERVAL \div 2

Min(x, y) == IF x < y THEN x ELSE y

TimerWaits ==
  {CONNECTION_TIMEOUT - obj[a].age : a \in {x \in Attempts : obj[x].timer}}
    \cup {d.left : d \in delayed}

RateWaits ==
  {MIN_CONNECTION_INTERVAL - sinceLastAttempt[s] :
     s \in {x \in sockets : sinceLastAttempt[x] < MIN_CONNECTION_INTERVAL}}

\* Instants strictly inside a channel's rate window.
PartWaits == {HALF_WINDOW : s \in {x \in sockets : sinceLastAttempt[x] = 0}}

\* The model follows a pending connect timer through at most MaxWindows
\* rate-limit windows; after that, time passes to the next timer.
WindowAllowed ==
  \A a \in Attempts :
    obj[a].timer => obj[a].age < MaxWindows * MIN_CONNECTION_INTERVAL

Elapse(d) ==
  /\ sinceLastAttempt' =
       [s \in Sockets |-> Min(sinceLastAttempt[s] + d, MIN_CONNECTION_INTERVAL)]
  /\ obj' = [a \in Attempts |->
              IF obj[a].alloc
                THEN [obj[a] EXCEPT !.age =
                        IF obj[a].timer \/ obj[a].isConnecting
                          THEN Min(@ + d, STUCK_CONNECTING + 1)
                          ELSE @]
                ELSE obj[a]]
  /\ delayed' = {[x EXCEPT !.left = @ - d] : x \in delayed}

(***************************************************************************)
(* Initial state: the server is constructed, no client has connected.      *)
(***************************************************************************)
Init ==
  /\ sockets = {}
  /\ everOpened = {}
  /\ isSocketConnected = [s \in Sockets |-> FALSE]
  /\ sinceLastAttempt = [s \in Sockets |-> MIN_CONNECTION_INTERVAL]
  /\ activeSessions = [s \in Sockets |-> 0]
  /\ obj = [a \in Attempts |-> FreshObject]
  /\ nextAttempt = 1
  /\ creating = [s \in Sockets |-> 0]
  /\ delayed = {}
  /\ activeContainers = {}
  /\ sessionContainers = [c \in ContainerIds |-> 0]
  /\ nextContainer = 1
  /\ running = {}
  /\ portOf = [c \in ContainerIds |-> 0]
  /\ sweepQueue = <<>>
  /\ containerIdle = [c \in ContainerIds |-> 0]
  /\ builds = 0
  /\ jobs = [j \in JobSlots |-> FreeJob]
  /\ reply = NoReply
  /\ server = [cleanupInterval |-> TRUE, healthInterval |-> TRUE, exited |-> FALSE]
  /\ shellIn = [a \in Attempts |-> <<>>]
  /\ clientOut = [s \in Sockets |-> <<>>]
  /\ nextInput = 1
  /\ emitted = <<>>
  /\ hist = [sinceAdmitted |-> [s \in Sockets |-> MIN_CONNECTION_INTERVAL],
             userLeft |-> [s \in Sockets |-> {}],
             early |-> {}, window |-> {}, ended |-> {},
             creatingSent |-> {}, createdSent |-> {}, auto |-> {},
             closedBusy |-> {}, userTore |-> {}]

unchangedClient == UNCHANGED <<everOpened, isSocketConnected, sinceLastAttempt>>
unchangedContainers == UNCHANGED <<creating, delayed, nextContainer>>

(***************************************************************************)
(* io.on('connection'): handleConnection(socket)                           *)
(***************************************************************************)
IoConnection(s) ==
  /\ s \notin everOpened
  /\ everOpened' = everOpened \cup {s}
  /\ isSocketConnected' = [isSocketConnected EXCEPT ![s] = TRUE]
  /\ sinceLastAttempt' = [sinceLastAttempt EXCEPT ![s] = MIN_CONNECTION_INTERVAL]
  /\ Commit([Heap EXCEPT !.sockets = @ \cup {s}])
  /\ unchangedContainers
  /\ UNCHANGED <<nextInput, hist>>

(***************************************************************************)
(* socket.on('terminal:connect')                                           *)
(***************************************************************************)
TerminalConnect(s, credentials) ==
  /\ s \in sockets /\ isSocketConnected[s]
  /\ IF RateLimited(s)
       THEN /\ Commit(Emit(Heap, s, "terminal:error",
                     "Too many connection attempts. Please wait before trying again.", 0))
            /\ UNCHANGED <<sinceLastAttempt, hist>>
       ELSE /\ sinceLastAttempt' = [sinceLastAttempt EXCEPT ![s] = 0]
            /\ hist' = [hist EXCEPT !.sinceAdmitted[s] = 0]
            /\ WithinAttempts(onTerminalConnect(Heap, s, credentials))
            /\ Commit(onTerminalConnect(Heap, s, credentials))
  /\ UNCHANGED <<everOpened, isSocketConnected, nextInput>>
  /\ unchangedContainers

\* The catch block of handleSSHConnect.
onSetupError(h, socketId) ==
  handleSSHDisconnect(Emit(h, socketId, "terminal:error", "Setup error", 0),
                      socketId, NoReason)

\* A terminal:connect that gets as far as conn.connect(), which throws: the
\* session is in activeSessions and its 30 s timer is set when the catch
\* block runs.
SetupError(s, credentials) ==
  /\ s \in sockets /\ isSocketConnected[s]
  /\ ~RateLimited(s) /\ ~Busy(Heap, s)
  /\ validateCredentials(credentials).valid
  /\ sinceLastAttempt' = [sinceLastAttempt EXCEPT ![s] = 0]
  /\ hist' = [hist EXCEPT !.sinceAdmitted[s] = 0]
  /\ WithinAttempts(handleSSHConnect(Heap, s, credentials))
  /\ Commit(onSetupError(handleSSHConnect(Heap, s, credentials), s))
  /\ UNCHANGED <<everOpened, isSocketConnected, nextInput>>
  /\ unchangedContainers

(***************************************************************************)
(* socket.on('terminal:create-container'), in its three parts: up to the   *)
(* await, the continuation after createSSHContainer (resolved or thrown),  *)
(* and the setTimeout callback.                                            *)
(***************************************************************************)
\* The sockets a step sent event ev to.
Recipients(msgs, ev) == {msgs[i].to : i \in {k \in 1..Len(msgs) : msgs[k].ev = ev}}

TerminalCreateContainer(s) ==
  /\ s \in sockets /\ isSocketConnected[s]
  /\ creating[s] < MaxJobs
  /\ creating' = [creating EXCEPT ![s] = @ + 1]
  /\ Commit(Emit(Heap, s, "terminal:container-creating", "Creating your container...", 0))
  /\ hist' = [hist EXCEPT !.creatingSent = @ \cup Recipients(emitted', "terminal:container-creating")]
  /\ UNCHANGED <<delayed, nextContainer>>
  /\ unchangedClient
  /\ UNCHANGED nextInput

\* The host ports the containers the runtime runs are published on.
BoundPorts(h) == {h.portOf[c] : c \in h.running}

\* findAvailablePort(startPort): the first port from startPort on that a
\* test server can bind; the port is closed again before it is returned.
RECURSIVE findAvailablePort(_, _)
findAvailablePort(h, startPort) ==
  IF startPort \in BoundPorts(h)
    THEN findAvailablePort(h, startPort + 1)
    ELSE startPort

\* createSSHContainer resolved with container c: the record is stored, the
\* container is associated with the socket, the client is told.
onContainerCreated(h, s, c) ==
  Emit([h EXCEPT !.running = @ \cup {c},
                 !.portOf[c] = findAvailablePort(h, START_PORT),
                 !.activeContainers = @ \cup {c},
                 !.containerIdle[c] = 0,
                 !.sessionContainers[c] = s],
       s, "terminal:container-created", "", c)

ContainerCreated(s) ==
  /\ creating[s] > 0
  /\ nextContainer <= MaxContainers
  /\ creating' = [creating EXCEPT ![s] = @ - 1]
  /\ nextContainer' = nextContainer + 1
  /\ delayed' = delayed \cup
        {[socketId |-> s, containerId |-> nextContainer,
          left |-> CONTAINER_READY_GRACE]}
  /\ Commit(onContainerCreated(Heap, s, nextContainer))
  /\ hist' = [hist EXCEPT !.createdSent = @ \cup
                 {<<emitted'[i].to, emitted'[i].cid>> :
                    i \in {k \in 1..Len(emitted') :
                             emitted'[k].ev = "terminal:container-created"}}]
  /\ unchangedClient
  /\ UNCHANGED nextInput

ContainerCreateFailed(s) ==
  /\ creating[s] > 0
  /\ creating' = [creating EXCEPT ![s] = @ - 1]
  /\ Commit(Emit(Heap, s, "terminal:error", "Failed to create container", 0))
  /\ UNCHANGED <<delayed, nextContainer>>
  /\ unchangedClient
  /\ UNCHANGED <<nextInput, hist>>

\* A faulty variant of the setTimeout callback that connects whether or not
\* the socket is still open.
onDelayedConnect_unguarded(h, d) ==
  handleSSHConnect(h, d.socketId, ContainerCredentials(d.containerId))

\* A faulty variant of the setTimeout callback that connects without the
\* container's id.
onDelayedConnect_noContainerId(h, d) ==
  IF isSocketConnected[d.socketId]
    THEN handleSSHConnect(h, d.socketId,
                          [ContainerCredentials(d.containerId) EXCEPT !.containerId = 0])
    ELSE h

onDelayedConnect(h, d) ==
  IF isSocketConnected[d.socketId]
    THEN handleSSHConnect(h, d.socketId, ContainerCredentials(d.containerId))
    ELSE h

DelayedConnect(d) ==
  /\ d \in delayed
  /\ d.left = 0
  /\ delayed' = delayed \ {d}
  /\ WithinAttempts(onDelayedConnect(Heap, d))
  /\ Commit(onDelayedConnect(Heap, d))
  /\ hist' = [hist EXCEPT !.auto =
                 IF activeSessions'[d.socketId] = nextAttempt
                   THEN @ \cup {<<nextAttempt, d.containerId>>}
                   ELSE @]
  /\ UNCHANGED <<creating, nextContainer>>
  /\ unchangedClient
  /\ UNCHANGED nextInput

(***************************************************************************)
(* DockerManager.stopContainer and the two HTTP routes that call it.  The  *)
(* docker commands of containerId fail when the runtime does not run it    *)
(* ("No such container") or when the command fails for a reason of its own *)
(* (containerId in failing); stopContainer then throws before it reaches   *)
(* activeContainers.delete.                                                *)
(***************************************************************************)
UnknownId == MaxRuns + 1

RequestIds == ContainerIds \cup {UnknownId}

stopContainer(h, containerId, failing) ==
  IF containerId \notin h.running \/ containerId \in failing
    THEN [heap |-> h, threw |-> TRUE]
    ELSE [heap |-> [h EXCEPT !.running = @ \ {containerId},
                             !.activeContainers = @ \ {containerId}],
          threw |-> FALSE]

\* The loop of the end-session route over containersToCleanup, in the order
\* of the map.
RECURSIVE stopSessionContainers(_, _, _)
stopSessionContainers(h, ids, failing) ==
  IF ids = {} THEN h
  ELSE LET c == CHOOSE x \in ids : \A y \in ids : x <= y
           r == stopContainer(h, c, failing)
           h1 == IF r.threw THEN r.heap
                 ELSE [r.heap EXCEPT !.sessionContainers[c] = 0]
       IN stopSessionContainers(h1, ids \ {c}, failing)

endSession(h, sessionId, failing) ==
  LET containersToCleanup == {c \in ContainerIds : h.sessionContainers[c] = sessionId}
      h1 == stopSessionContainers(h, containersToCleanup, failing)
  IN [h1 EXCEPT !.reply = [kind |-> "end-session", ok |-> TRUE,
                           count |-> Cardinality(containersToCleanup)]]

\* POST /api/containers/end-session with sessionId = s
EndSession(s, failing) ==
  /\ Commit(endSession(Heap, s, failing))
  /\ hist' = [hist EXCEPT !.ended =
                 IF /\ activeSessions[s] # 0
                    /\ obj[activeSessions[s]].isConnected
                    /\ obj[activeSessions[s]].containerId # 0
                   THEN @ \cup {activeSessions[s]}
                   ELSE @]
  /\ unchangedClient /\ unchangedContainers
  /\ UNCHANGED nextInput

deleteContainer(h, containerId, failing) ==
  LET r == stopContainer(h, containerId, failing)
  IN [r.heap EXCEPT !.reply = [kind |-> "delete", ok |-> ~r.threw, count |-> 0]]

\* DELETE /api/containers/:id
DeleteContainer(containerId, failing) ==
  /\ Commit(deleteContainer(Heap, containerId, failing))
  /\ unchangedClient /\ unchangedContainers
  /\ UNCHANGED <<nextInput, hist>>

(***************************************************************************)
(* DockerManager.createSSHContainer, as POST /api/containers/create runs   *)
(* it.  The call awaits four things in turn, and other requests run while  *)
(* it waits, so each await is a step: the docker build, the port probe     *)
(* (which changes nothing the model keeps), the docker run and the wait    *)
(* for the SSH service.  A job slot holds one call in progress.            *)
(***************************************************************************)
createReply(ok) == [kind |-> "create", ok |-> ok, count |-> 0]

\* createSSHContainer up to its first await: buildSSHImage spawns docker build.
createSSHContainer(h, j) ==
  [h EXCEPT !.builds = @ + 1,
            !.jobs[j] = [phase |-> "build", cid |-> 0, port |-> 0]]

CreateContainer(j) ==
  /\ jobs[j].phase = "free"
  /\ builds < MaxBuilds
  /\ Commit(createSSHContainer(Heap, j))
  /\ unchangedClient /\ unchangedContainers
  /\ UNCHANGED <<nextInput, hist>>

\* buildProcess.on('close'): code 0 resolves, and the call goes on to
\* findAvailablePort and to spawning docker run; any other code rejects.
onBuildClose(h, j, code) ==
  IF code = 0
    THEN [h EXCEPT !.jobs[j].phase = "run",
                   !.jobs[j].port = findAvailablePort(h, START_PORT)]
    ELSE [h EXCEPT !.jobs[j] = FreeJob, !.reply = createReply(FALSE)]

BuildClose(j, code) ==
  /\ jobs[j].phase = "build"
  /\ Commit(onBuildClose(Heap, j, code))
  /\ unchangedClient /\ unchangedContainers
  /\ UNCHANGED <<nextInput, hist>>

\* runProcess.on('close'): with code 0 the runtime runs container c, and
\* the call goes on to waitForSSHReady.
onRunClose(h, j, code, c) ==
  IF code = 0
    THEN [h EXCEPT !.running = @ \cup {c},
                   !.portOf[c] = h.jobs[j].port,
                   !.jobs[j] = [phase |-> "wait", cid |-> c, port |-> h.jobs[j].port]]
    ELSE [h EXCEPT !.jobs[j] = FreeJob, !.reply = createReply(FALSE)]

RunClose(j, code) ==
  /\ jobs[j].phase = "run"
  /\ code = 0 => nextContainer \in ContainerIds
  /\ code = 0 => jobs[j].port \notin BoundPorts(Heap)
  /\ Commit(onRunClose(Heap, j, code, nextContainer))
  /\ nextContainer' = IF code = 0 THEN nextContainer + 1 ELSE nextContainer
  /\ unchangedClient
  /\ UNCHANGED <<creating, delayed, nextInput, hist>>

\* waitForSSHReady returned true: the record is stored and the route replies.
onSSHReady(h, j) ==
  [h EXCEPT !.activeContainers = @ \cup {h.jobs[j].cid},
            !.containerIdle[h.jobs[j].cid] = 0,
            !.jobs[j] = FreeJob,
            !.reply = createReply(TRUE)]

SSHReady(j) ==
  /\ jobs[j].phase = "wait"
  /\ jobs[j].cid \in running
  /\ Commit(onSSHReady(Heap, j))
  /\ unchangedClient /\ unchangedContainers
  /\ UNCHANGED <<nextInput, hist>>

\* waitForSSHReady threw after maxRetries: the catch of createSSHContainer
\* rethrows and the route replies 500.
onSSHNotReady(h, j) ==
  [h EXCEPT !.jobs[j] = FreeJob, !.reply = createReply(FALSE)]

SSHNotReady(j) ==
  /\ jobs[j].phase = "wait"
  /\ Commit(onSSHNotReady(Heap, j))
  /\ unchangedClient /\ unchangedContainers
  /\ UNCHANGED <<nextInput, hist>>

\* The runtime loses a container without the program's doing (it exits and
\* is removed, or an operator removes it).
ContainerGone(c) ==
  /\ c \in running
  /\ \A j \in JobSlots : jobs[j].cid # c
  /\ running' = running \ {c}
  /\ emitted' = <<>>
  /\ reply' = NoReply
  /\ UNCHANGED <<sockets, everOpened, isSocketConnected, sinceLastAttempt,
                 activeSessions, obj, nextAttempt, creating, delayed,
                 activeContainers, sessionContainers, nextContainer, portOf,
                 sweepQueue, containerIdle, builds, jobs, server, shellIn, clientOut,
                 nextInput, hist>>

(***************************************************************************)
(* DockerManager.cleanupIdleContainers(maxIdleTime): the first loop        *)
(* collects the records idle for more than maxIdleTime, the second stops   *)
(* them one after the other, in the order of the map, and swallows what    *)
(* stopContainer throws.                                                   *)
(***************************************************************************)
RECURSIVE stopIdleContainers(_, _, _)
stopIdleContainers(h, ids, failing) ==
  IF ids = {} THEN h
  ELSE LET c == CHOOSE x \in ids : \A y \in ids : x <= y
       IN stopIdleContainers(stopContainer(h, c, failing).heap, ids \ {c}, failing)

cleanupIdleContainers(h, maxIdleTime, failing) ==
  LET containersToCleanup ==
        {c \in h.activeContainers : h.containerIdle[c] > maxIdleTime}
      h1 == stopIdleContainers(h, containersToCleanup, failing)
  IN [h1 EXCEPT !.reply = [kind |-> "cleanup", ok |-> TRUE,
                           count |-> Cardinality(containersToCleanup)]]

\* The interval callback of startCleanupInterval.
CleanupIdleContainers(failing) ==
  /\ Commit(cleanupIdleContainers(Heap, IDLE_TIMEOUT, failing))
  /\ unchangedClient /\ unchangedContainers
  /\ UNCHANGED <<nextInput, hist>>

(***************************************************************************)
(* cleanupIdleContainers as the event loop runs it.  The first loop and    *)
(* the call of stopContainer for the first selected container happen in    *)
(* one turn; every await of a stopContainer lets other handlers run, and   *)
(* its continuation calls stopContainer for the next selected container.   *)
(***************************************************************************)
RECURSIVE InMapOrder(_)
InMapOrder(ids) ==
  IF ids = {} THEN <<>>
  ELSE LET c == CHOOSE x \in ids : \A y \in ids : x <= y
       IN <<c>> \o InMapOrder(ids \ {c})

selectIdleContainers(h, maxIdleTime) ==
  [h EXCEPT !.sweepQueue =
     InMapOrder({c \in h.activeContainers : h.containerIdle[c] > maxIdleTime})]

SweepSelect ==
  /\ sweepQueue = <<>>
  /\ \E c \in activeContainers : containerIdle[c] > IDLE_TIMEOUT
  /\ Commit(selectIdleContainers(Heap, IDLE_TIMEOUT))
  /\ unchangedClient /\ unchangedContainers
  /\ UNCHANGED <<nextInput, hist>>

\* The stopContainer awaited by the sweep settles; the loop goes on to the
\* next selected container without looking at its lastActivity again.
onSweepStopSettled(h, failing) ==
  [stopContainer(h, Head(h.sweepQueue), failing).heap
     EXCEPT !.sweepQueue = Tail(h.sweepQueue)]

SweepStopSettled(failing) ==
  /\ sweepQueue # <<>>
  /\ Commit(onSweepStopSettled(Heap, failing))
  /\ unchangedClient /\ unchangedContainers
  /\ UNCHANGED <<nextInput, hist>>

\* The terminal server reports input or output of a session of container c:
\* dockerManager.updateContainerActivity(c).
ContainerActivity(c) ==
  /\ c \in activeContainers
  /\ containerIdle[c] # 0
  /\ Commit(updateContainerActivity(Heap, c))
  /\ unchangedClient /\ unchangedContainers
  /\ UNCHANGED <<nextInput, hist>>

(***************************************************************************)
(* The two sweeps of the terminal server over activeSessions.  The sockets *)
(* are visited in the order of the map.                                    *)
(***************************************************************************)
\* A faulty variant of the idle test that also takes a session idle for
\* exactly maxIdleTime.
IdleSessions_inclusive(h, maxIdleTime) ==
  {s \in Sockets : /\ h.activeSessions[s] # 0
                   /\ h.obj[h.activeSessions[s]].idle >= maxIdleTime}

IdleSessions(h, maxIdleTime) ==
  {s \in Sockets : /\ h.activeSessions[s] # 0
                   /\ h.obj[h.activeSessions[s]].idle > maxIdleTime}

RECURSIVE disconnectIdle(_, _)
disconnectIdle(h, ids) ==
  IF ids = {} THEN h
  ELSE LET s == CHOOSE x \in ids : \A y \in ids : x <= y
           h1 == handleSSHDisconnect(h, s, "idle_timeout")
           h2 == Emit(h1, s, "terminal:disconnected", "idle_timeout", 0)
       IN disconnectIdle(h2, ids \ {s})

cleanupIdleSessions(h, maxIdleTime) ==
  LET sessionsToCleanup == IdleSessions(h, maxIdleTime)
      h1 == disconnectIdle(h, sessionsToCleanup)
  IN [h1 EXCEPT !.reply = [kind |-> "sweep", ok |-> TRUE,
                           count |-> Cardinality(sessionsToCleanup)]]

\* The interval callback the constructor installs.
CleanupIdleSessions ==
  /\ server.cleanupInterval
  /\ Commit(cleanupIdleSessions(Heap, IDLE_TIMEOUT))
  /\ unchangedClient /\ unchangedContainers
  /\ UNCHANGED <<nextInput, hist>>

\* The first loop of checkConnectionHealth: what it emits for socket s and
\* whether it puts s on staleConnections.
healthVerdict(h, s) ==
  LET o == h.obj[h.activeSessions[s]] IN
  IF s \notin h.sockets
    THEN [heap |-> h, stale |-> TRUE]
  ELSE IF o.isConnecting /\ o.age > STUCK_CONNECTING
    THEN [heap |-> Emit(h, s, "terminal:error", "Connection timed out", 0),
          stale |-> TRUE]
  ELSE IF o.idle > IDLE_TIMEOUT
    THEN [heap |-> Emit(h, s, "terminal:disconnected", "inactive", 0),
          stale |-> TRUE]
  ELSE [heap |-> h, stale |-> FALSE]

RECURSIVE collectStale(_, _, _)
collectStale(h, ids, staleConnections) ==
  IF ids = {} THEN [heap |-> h, stale |-> staleConnections]
  ELSE LET s == CHOOSE x \in ids : \A y \in ids : x <= y
           v == healthVerdict(h, s)
       IN collectStale(v.heap, ids \ {s},
                       IF v.stale THEN staleConnections \cup {s}
                                  ELSE staleConnections)

RECURSIVE disconnectStale(_, _)
disconnectStale(h, ids) ==
  IF ids = {} THEN h
  ELSE LET s == CHOOSE x \in ids : \A y \in ids : x <= y
       IN disconnectStale(handleSSHDisconnect(h, s, "health_check_cleanup"),
                          ids \ {s})

checkConnectionHealth(h) ==
  LET r == collectStale(h, {s \in Sockets : h.activeSessions[s] # 0}, {})
      h1 == disconnectStale(r.heap, r.stale)
  IN [h1 EXCEPT !.reply = [kind |-> "health", ok |-> TRUE,
                           count |-> Cardinality(r.stale)]]

\* The interval callback of startHealthMonitoring.
CheckConnectionHealth ==
  /\ server.healthInterval
  /\ Commit(checkConnectionHealth(Heap))
  /\ unchangedClient /\ unchangedContainers
  /\ UNCHANGED <<nextInput, hist>>

(***************************************************************************)
(* shutdown() and the SIGINT / SIGTERM handlers.  shutdown clears the two  *)
(* intervals and tears the sessions down synchronously; the shutdown of    *)
(* the container service is the continuation of Promise.all(...).then,     *)
(* which is only queued when shutdown returns.  The signal handler calls   *)
(* process.exit(0) right after shutdown(), so the process is gone before   *)
(* the queued continuation can run.                                       *)
(***************************************************************************)
RECURSIVE disconnectAll(_, _)
disconnectAll(h, ids) ==
  IF ids = {} THEN h
  ELSE LET s == CHOOSE x \in ids : \A y \in ids : x <= y
           h1 == Emit(h, s, "terminal:disconnected", "server_shutdown", 0)
           h2 == handleSSHDisconnect(h1, s, "server_shutdown")
       IN disconnectAll(h2, ids \ {s})

shutdown(h) ==
  LET h1 == [h EXCEPT !.server.cleanupInterval = FALSE,
                      !.server.healthInterval = FALSE]
  IN disconnectAll(h1, {s \in Sockets : h.activeSessions[s] # 0})

onSignal(h) == [shutdown(h) EXCEPT !.server.exited = TRUE]

\* process.on('SIGINT') / process.on('SIGTERM')
Signal ==
  /\ ~server.exited
  /\ Commit(onSignal(Heap))
  /\ unchangedClient /\ unchangedContainers
  /\ UNCHANGED <<nextInput, hist>>

(***************************************************************************)
(* socket.on('ping')                                                       *)
(***************************************************************************)
onPing(h, s) ==
  LET a == h.activeSessions[s]
      h1 == IF a # 0 THEN [h EXCEPT !.obj[a].idle = 0] ELSE h
  IN Emit(h1, s, "pong", "", 0)

Ping(s) ==
  /\ s \in sockets /\ isSocketConnected[s]
  /\ Commit(onPing(Heap, s))
  /\ unchangedClient /\ unchangedContainers
  /\ UNCHANGED <<nextInput, hist>>

(***************************************************************************)
(* socket.on('terminal:resize') and handleTerminalResize(socketId, size).  *)
(* A dimension is a JavaScript value: undefined, or a number; the handler  *)
(* tests it for truthiness.  window holds the arguments of the last        *)
(* stream.setWindow(rows, cols, ...) call on the session's stream.         *)
(***************************************************************************)
Undefined == [kind |-> "undefined", n |-> 0]

Number(k) == [kind |-> "number", n |-> k]

Truthy(v) == v.kind = "number" /\ v.n # 0

ResizeDims == {Undefined} \cup {Number(k) : k \in {-1, 0, 80}}

\* The size argument of terminal:resize; given is FALSE for a missing one.
ResizeSizes ==
  {[given |-> FALSE, cols |-> Undefined, rows |-> Undefined]}
    \cup [given : {TRUE}, cols : ResizeDims, rows : ResizeDims]

handleTerminalResize(h, socketId, size) ==
  LET a == h.activeSessions[socketId] IN
  IF /\ a # 0 /\ h.obj[a].stream /\ size.given
     /\ Truthy(size.cols) /\ Truthy(size.rows) /\ h.obj[a].isConnected
    THEN [h EXCEPT !.obj[a].window = <<size.rows.n, size.cols.n>>]
    ELSE h

TerminalResize(s, size) ==
  /\ s \in sockets /\ isSocketConnected[s]
  /\ Commit(handleTerminalResize(Heap, s, size))
  /\ unchangedClient /\ unchangedContainers
  /\ UNCHANGED <<nextInput, hist>>

(***************************************************************************)
(* socket.on('terminal:input')                                             *)
(***************************************************************************)
TerminalInput(s) ==
  /\ s \in sockets /\ isSocketConnected[s]
  /\ nextInput <= MaxInputs
  /\ nextInput' = nextInput + 1
  /\ LET h == handleTerminalInput(Heap, s, nextInput)
         a == activeSessions[s]
     IN Commit(IF a # 0 /\ ConnectedOpen(a)
                 THEN [h EXCEPT !.obj[a].expectIn = Append(@, nextInput)]
                 ELSE h)
  /\ hist' = [hist EXCEPT
                 !.early = IF BeforeConnected(s) THEN @ \cup {nextInput} ELSE @,
                 !.window = IF InShellWindow(s) THEN @ \cup {nextInput} ELSE @]
  /\ unchangedClient /\ unchangedContainers

(***************************************************************************)
(* socket.on('terminal:disconnect') and socket.on('disconnect')            *)
(***************************************************************************)
\* The session of socket s when the idle sweeps would take it: history kept
\* of the sessions the user tore down ahead of a sweep.
SweepTargets(s) ==
  IF activeSessions[s] # 0 /\ obj[activeSessions[s]].idle > IDLE_TIMEOUT
    THEN {activeSessions[s]} ELSE {}

TerminalDisconnect(s) ==
  /\ s \in sockets /\ isSocketConnected[s]
  /\ Commit(handleSSHDisconnect(Heap, s, "manual_disconnect"))
  /\ hist' = [hist EXCEPT !.userLeft[s] =
                 IF activeSessions[s] # 0 /\ obj[activeSessions[s]].containerId # 0
                   THEN @ \cup {obj[activeSessions[s]].containerId}
                   ELSE @,
                           !.userTore = @ \cup SweepTargets(s)]
  /\ unchangedClient /\ unchangedContainers
  /\ UNCHANGED nextInput

SocketDisconnect(s) ==
  /\ s \in sockets
  /\ isSocketConnected' = [isSocketConnected EXCEPT ![s] = FALSE]
  /\ Commit(handleSSHDisconnect([Heap EXCEPT !.sockets = @ \ {s}], s, "client_disconnect"))
  /\ hist' = [hist EXCEPT !.closedBusy =
                 IF creating[s] > 0 \/ \E d \in delayed : d.socketId = s
                   THEN @ \cup {s} ELSE @,
                           !.userTore = @ \cup SweepTargets(s)]
  /\ UNCHANGED <<everOpened, sinceLastAttempt, nextInput>>
  /\ unchangedContainers

(***************************************************************************)
(* Events of the ssh2 connection and shell channel of session object a.    *)
(* An event whose listeners were removed runs no handler.  The shell       *)
(* callback is no listener: it runs whenever the shell request ends.       *)
(***************************************************************************)
unchangedBySsh ==
  /\ unchangedClient /\ unchangedContainers
  /\ UNCHANGED <<nextInput, hist>>

ConnReady(a) ==
  /\ obj[a].alloc /\ ~obj[a].sshReady
  /\ LET h == [Heap EXCEPT !.obj[a].sshReady = TRUE]
     IN Commit(IF obj[a].connListeners THEN onReady(h, a) ELSE h)
  /\ unchangedBySsh

ShellOpened(a) ==
  /\ obj[a].alloc /\ obj[a].chan = "pending"
  /\ Commit(onShellStream([Heap EXCEPT !.obj[a].chan = "open"], a))
  /\ unchangedBySsh

ShellFailed(a) ==
  /\ obj[a].alloc /\ obj[a].chan = "pending"
  /\ Commit(onShellError([Heap EXCEPT !.obj[a].chan = "failed"], a))
  /\ unchangedBySsh

ConnError(a, err) ==
  /\ obj[a].alloc /\ obj[a].connListeners
  /\ Commit(onConnError(Heap, a, err))
  /\ unchangedBySsh

ConnClose(a) ==
  /\ obj[a].alloc /\ obj[a].connListeners
  /\ Commit(onConnClosed(Heap, a, "connection_closed"))
  /\ unchangedBySsh

ConnEnd(a) ==
  /\ obj[a].alloc /\ obj[a].connListeners
  /\ Commit(onConnClosed(Heap, a, "connection_ended"))
  /\ unchangedBySsh

\* The shell writes a chunk to stdout: stream.on('data').
StreamData(a) ==
  /\ obj[a].alloc /\ obj[a].chan = "open" /\ obj[a].streamListeners
  /\ SumProduced(MaxAttempts) < MaxChunks
  /\ LET h == [Heap EXCEPT !.obj[a].produced = @ + 1,
                           !.obj[a].expectOut =
                             IF ConnectedOpen(a) THEN Append(@, obj[a].produced + 1) ELSE @]
     IN Commit(onStreamData(h, a, obj[a].produced + 1))
  /\ unchangedBySsh

\* The shell writes a chunk to stderr: stream.stderr.on('data'), a listener
\* stream.removeAllListeners() does not reach.
StderrData(a) ==
  /\ obj[a].alloc /\ obj[a].chan = "open" /\ obj[a].stream
  /\ SumProduced(MaxAttempts) < MaxChunks
  /\ LET h == [Heap EXCEPT !.obj[a].produced = @ + 1,
                           !.obj[a].expectOut =
                             IF ConnectedOpen(a) THEN Append(@, obj[a].produced + 1) ELSE @]
     IN Commit(onStderrData(h, a, obj[a].produced + 1))
  /\ unchangedBySsh

\* The peer closes the shell channel: the stream stops being writable, its
\* 'close' event follows.
StreamPeerClose(a) ==
  /\ obj[a].alloc /\ obj[a].chan = "open"
  /\ Commit([Heap EXCEPT !.obj[a].chan = "closing", !.obj[a].writable = FALSE])
  /\ unchangedBySsh

StreamClose(a) ==
  /\ obj[a].alloc /\ obj[a].chan = "closing" /\ obj[a].streamListeners
  /\ Commit(onStreamClose([Heap EXCEPT !.obj[a].chan = "closed"], a))
  /\ unchangedBySsh

StreamError(a) ==
  /\ obj[a].alloc /\ obj[a].chan \in {"open", "closing"} /\ obj[a].streamListeners
  /\ Commit(onStreamError(Heap, a))
  /\ unchangedBySsh

\* The 30 s setTimeout of handleSSHConnect.
ConnectionTimeout(a) ==
  /\ obj[a].alloc /\ obj[a].timer
  /\ obj[a].age = CONNECTION_TIMEOUT
  /\ Commit(onConnectionTimeout(Heap, a))
  /\ unchangedBySsh

(***************************************************************************)
(* The clock.  Time passes until the next instant something waits for; a   *)
(* timer fires when it is due, so time does not pass a pending timer.      *)
(***************************************************************************)
Advance(d) ==
  /\ d > 0
  /\ \A t \in TimerWaits : d <= t
  /\ d \in TimerWaits \/ WindowAllowed
  /\ Elapse(d)
  /\ hist' = [hist EXCEPT !.sinceAdmitted =
                 [s \in Sockets |-> Min(@[s] + d, MIN_CONNECTION_INTERVAL)]]
  /\ emitted' = <<>>
  /\ reply' = NoReply
  /\ UNCHANGED <<sockets, everOpened, isSocketConnected, activeSessions, nextAttempt,
                 creating, activeContainers, sessionContainers, nextContainer,
                 running, portOf, sweepQueue, containerIdle, builds, jobs, server,
                 shellIn, clientOut, nextInput>>

(***************************************************************************)
(* The clock where the idle sweeps run.  now - lastActivity is compared    *)
(* with the idle limit only, so it is kept in four classes: 0, a short     *)
(* time (the delays of the timers, kept as one rate-limit window), the     *)
(* limit exactly, and more than the limit.  The idle time of a session is  *)
(* kept while activeSessions holds it, that of a container while it has a  *)
(* record.  Advance leaves both alone: where it is the clock, nothing      *)
(* reads them.                                                             *)
(***************************************************************************)
IdleAfter(i, d) ==
  IF i + d < IDLE_TIMEOUT
    THEN Min(i + d, MIN_CONNECTION_INTERVAL)
    ELSE Min(i + d, IDLE_TIMEOUT + 1)

ElapseIdle(d) ==
  /\ sinceLastAttempt' =
       [s \in Sockets |-> Min(sinceLastAttempt[s] + d, MIN_CONNECTION_INTERVAL)]
  /\ obj' = [a \in Attempts |->
              IF obj[a].alloc
                THEN [obj[a] EXCEPT
                        !.age = IF obj[a].timer \/ obj[a].isConnecting
                                  THEN Min(@ + d, STUCK_CONNECTING + 1)
                                  ELSE @,
                        !.idle = IF activeSessions[obj[a].socketId] = a
                                   THEN IdleAfter(@, d)
                                   ELSE @]
                ELSE obj[a]]
  /\ delayed' = {[x EXCEPT !.left = @ - d] : x \in delayed}
  /\ containerIdle' =
       [c \in ContainerIds |->
          IF c \in activeContainers THEN IdleAfter(containerIdle[c], d)
                                    ELSE containerIdle[c]]

AdvanceIdle(d) ==
  /\ d > 0
  /\ \A t \in TimerWaits : d <= t
  /\ d \in TimerWaits \/ WindowAllowed
  /\ ElapseIdle(d)
  /\ hist' = [hist EXCEPT !.sinceAdmitted =
                 [s \in Sockets |-> Min(@[s] + d, MIN_CONNECTION_INTERVAL)]]
  /\ emitted' = <<>>
  /\ reply' = NoReply
  /\ UNCHANGED <<sockets, everOpened, isSocketConnected, activeSessions, nextAttempt,
                 creating, activeContainers, sessionContainers, nextContainer,
                 running, portOf, sweepQueue, builds, jobs, server, shellIn, clientOut,
                 nextInput>>

(***************************************************************************)
(* Next-state relations.  Next is the broker with its SSH transport and    *)
(* its timers; NextContainer adds the create-container path over an SSH    *)
(* transport that only succeeds or times out; NextIO adds the byte streams *)
(* of the shell.                                                           *)
(***************************************************************************)
ClientStep ==
  \/ \E s \in Sockets : IoConnection(s)
  \/ \E s \in Sockets, credentials \in ClientCredentials : TerminalConnect(s, credentials)
  \/ \E s \in Sockets : TerminalDisconnect(s)
  \/ \E s \in Sockets : SocketDisconnect(s)

SshOpenStep ==
  \/ \E a \in Attempts : ConnReady(a)
  \/ \E a \in Attempts : ShellOpened(a)
  \/ \E a \in Attempts : ConnectionTimeout(a)

SshFailStep ==
  \/ \E a \in Attempts : ShellFailed(a)
  \/ \E a \in Attempts, err \in ErrorKinds : ConnError(a, err)
  \/ \E a \in Attempts : ConnClose(a)
  \/ \E a \in Attempts : ConnEnd(a)
  \/ \E a \in Attempts : StreamError(a)

SshCloseStep ==
  \/ \E a \in Attempts : StreamPeerClose(a)
  \/ \E a \in Attempts : StreamClose(a)

ContainerStep ==
  \/ \E s \in Sockets : TerminalCreateContainer(s)
  \/ \E s \in Sockets : ContainerCreated(s)
  \/ \E s \in Sockets : ContainerCreateFailed(s)
  \/ \E d \in delayed : DelayedConnect(d)

IoStep ==
  \/ \E s \in Sockets : TerminalInput(s)
  \/ \E a \in Attempts : StreamData(a)
  \/ \E a \in Attempts : StderrData(a)

IoClientStep ==
  \/ \E s \in Sockets : IoConnection(s)
  \/ \E s \in Sockets : TerminalConnect(s, ExternalCredentials)
  \/ \E s \in Sockets : TerminalDisconnect(s)
  \/ \E s \in Sockets : SocketDisconnect(s)

EndStep ==
  \/ \E s \in Sockets, failing \in SUBSET ContainerIds : EndSession(s, failing)
  \/ \E c \in RequestIds, failing \in SUBSET ContainerIds : DeleteContainer(c, failing)

DockerStep ==
  \/ \E j \in JobSlots : CreateContainer(j)
  \/ \E j \in JobSlots, code \in {0, 1} : BuildClose(j, code)
  \/ \E j \in JobSlots, code \in {0, 1} : RunClose(j, code)
  \/ \E j \in JobSlots : SSHReady(j)
  \/ \E j \in JobSlots : SSHNotReady(j)
  \/ \E c \in ContainerIds : ContainerGone(c)

SweepContainersStep ==
  \E failing \in SUBSET ContainerIds : CleanupIdleContainers(failing)

DeleteStep ==
  \E c \in RequestIds, failing \in SUBSET ContainerIds : DeleteContainer(c, failing)

SweepSessionsStep ==
  \/ CleanupIdleSessions
  \/ CheckConnectionHealth

IdleClockStep ==
  \E d \in TimerWaits \cup RateWaits \cup {IDLE_TIMEOUT} : AdvanceIdle(d)

ClockStep == \E d \in TimerWaits \cup RateWaits : Advance(d)

PartClockStep == \E d \in PartWaits : Advance(d)

Next ==
  ClientStep \/ SshOpenStep \/ SshFailStep \/ SshCloseStep \/ ClockStep \/ PartClockStep

NextContainer == ClientStep \/ ContainerStep \/ SshOpenStep \/ ClockStep

NextIO == IoClientStep \/ SshOpenStep \/ SshCloseStep \/ IoStep \/ ClockStep

NextEnd ==
  \/ \E s \in Sockets : IoConnection(s)
  \/ ContainerStep \/ SshOpenStep \/ EndStep \/ ClockStep
  \/ \E s \in Sockets : TerminalInput(s)
  \/ \E a \in Attempts : ConnClose(a)

NextDocker == DockerStep \/ DeleteStep \/ SweepContainersStep \/ IdleClockStep

NextSweep ==
  \/ IoClientStep \/ SshOpenStep \/ SweepSessionsStep \/ IdleClockStep
  \/ \E s \in Sockets : Ping(s)

\* The process runs its handlers until it exits.
NextShutdown ==
  \/ /\ ~server.exited
     /\ \/ \E s \in Sockets : IoConnection(s)
        \/ ContainerStep \/ SshOpenStep \/ SweepSessionsStep \/ IdleClockStep
  \/ Signal

NextFail ==
  \/ IoClientStep \/ SshOpenStep \/ SshFailStep \/ SshCloseStep \/ ClockStep
  \/ \E s \in Sockets : SetupError(s, KeyCredentials)

NextValidate ==
  \/ \E s \in Sockets : IoConnection(s)
  \/ \E s \in Sockets, credentials \in {ExternalCredentials} \cup RejectedCredentials :
       TerminalConnect(s, credentials)
  \/ \E s \in Sockets : TerminalDisconnect(s)
  \/ SshOpenStep \/ ClockStep

\* A container session left to itself: nothing is typed and the shell prints
\* nothing; only the timers, the SSH transport, the two idle sweeps and the
\* container runtime act.
NextIdle ==
  \/ \E s \in Sockets : IoConnection(s)
  \/ ContainerStep \/ SshOpenStep
  \/ CleanupIdleSessions
  \/ SweepContainersStep
  \/ \E c \in ContainerIds : ContainerGone(c)
  \/ IdleClockStep

\* Time passes, a timer that is due fires, the two setInterval sweeps keep
\* running, and a docker command on a container the runtime has succeeds.
FairIdle ==
  /\ WF_vars(AdvanceIdle(IDLE_TIMEOUT))
  /\ WF_vars(\E d \in TimerWaits : AdvanceIdle(d))
  /\ WF_vars(\E d \in delayed : DelayedConnect(d))
  /\ WF_vars(\E a \in Attempts : ConnectionTimeout(a))
  /\ WF_vars(CleanupIdleSessions)
  /\ WF_vars(CleanupIdleContainers({}))

\* A container session in use: keystrokes and shell output, while the idle
\* clocks run.
NextActivity ==
  \/ \E s \in Sockets : IoConnection(s)
  \/ ContainerStep \/ SshOpenStep \/ IoStep \/ IdleClockStep

NextResize ==
  \/ \E s \in Sockets : IoConnection(s)
  \/ \E s \in Sockets : TerminalConnect(s, ExternalCredentials)
  \/ \E s \in Sockets : TerminalDisconnect(s)
  \/ \E s \in Sockets, size \in ResizeSizes : TerminalResize(s, size)
  \/ SshOpenStep \/ ClockStep

\* The container manager with its idle sweep taken one await at a time.
NextReap ==
  \/ DockerStep
  \/ SweepSelect
  \/ \E failing \in SUBSET ContainerIds : SweepStopSettled(failing)
  \/ \E c \in ContainerIds : ContainerActivity(c)
  \/ IdleClockStep

Spec == Init /\ [][Next]_vars

SpecEnd == Init /\ [][NextEnd]_vars

SpecDocker == Init /\ [][NextDocker]_vars

SpecSweep == Init /\ [][NextSweep]_vars

SpecShutdown == Init /\ [][NextShutdown]_vars

SpecFail == Init /\ [][NextFail]_vars

SpecValidate == Init /\ [][NextValidate]_vars

SpecIdle == Init /\ [][NextIdle]_vars /\ FairIdle

SpecActivity == Init /\ [][NextActivity]_vars

SpecResize == Init /\ [][NextResize]_vars

SpecReap == Init /\ [][NextReap]_vars

SpecContainer == Init /\ [][NextContainer]_vars

SpecIO == Init /\ [][NextIO]_vars

(***************************************************************************)
(* Properties.  The states of a channel are read off its entry in          *)
(* activeSessions; what a step sent to the clients is the value of emitted *)
(* after it.                                                               *)
(***************************************************************************)
Connecting(s) == activeSessions[s] # 0 /\ obj[activeSessions[s]].isConnecting

Connected(s) == activeSessions[s] # 0 /\ obj[activeSessions[s]].isConnected

HasEvent(msgs, ev) == \E i \in 1..Len(msgs) : msgs[i].ev = ev

HasText(msgs, ev, text) ==
  \E i \in 1..Len(msgs) : msgs[i].ev = ev /\ msgs[i].text = text

TooManyAttempts == "Too many connection attempts. Please wait before trying again."

AlreadyConnecting == "Connection already in progress or established"

\* The attempts in flight on channel s: container creations that have not
\* returned, automatic connects waiting for their delay, a session that is
\* connecting.
InFlight(s) ==
  creating[s] + Cardinality({d \in delayed : d.socketId = s})
    + (IF Connecting(s) THEN 1 ELSE 0)

\* C1: at most one connection attempt is in flight per channel at any time;
\* a connect and a create-container of one channel never run concurrently.
C1_OneAttemptInFlight == \A s \in Sockets : InFlight(s) <= 1

\* C2: a session whose 30 s connect timer fired while it was Connecting is
\* never Connected afterwards, not even when the SSH 'ready' event arrives
\* late: no terminal:connected is sent for it, its transport is closed and
\* it is no longer the session of its channel.
C2_TimedOutStaysClosed ==
  \A a \in Attempts :
    obj[a].timedOut =>
      /\ ~obj[a].isConnected
      /\ ~obj[a].announced
      /\ obj[a].chan = "none"
      /\ obj[a].connEnded
      /\ activeSessions[obj[a].socketId] # a

\* The 'ready' event of a timed-out session has arrived.
C2_LateReady == \E a \in Attempts : obj[a].timedOut /\ obj[a].sshReady

\* A session is Connecting for at most the 30 s of its connect timer.
ConnectingWithin30s ==
  \A a \in Attempts : obj[a].isConnecting => obj[a].age <= 30000

\* Session object a leaves Connecting in this step, and not for Connected.
ConnectingToIdle(a) ==
  /\ obj[a].alloc /\ obj[a].isConnecting
  /\ ~obj'[a].isConnecting /\ ~obj'[a].isConnected

\* C3 as the specification states it: every session leaves Connecting
\* within 30 s, and none leaves it for Idle without a terminal:error being
\* emitted.
C3_IdleOnlyWithError ==
  /\ []ConnectingWithin30s
  /\ [][\A a \in Attempts :
          ConnectingToIdle(a) => HasEvent(emitted', "terminal:error")]_vars

\* C3: every session leaves Connecting within 30 s.  One that leaves it for
\* Idle is removed from activeSessions with its transport closed; a
\* terminal:error is emitted when the cause is an SSH connection error or
\* the connect timer, and terminal:disconnected without a terminal:error
\* when the cause is the SSH connection closing or ending or the user's
\* terminal:disconnect.
C3_LeavesConnecting ==
  /\ []ConnectingWithin30s
  /\ [][\A a \in Attempts :
          ConnectingToIdle(a) =>
            /\ activeSessions'[obj[a].socketId] # a
            /\ obj'[a].connEnded
            /\ (obj'[a].timedOut \/ \E err \in ErrorKinds : ConnError(a, err))
                 => HasEvent(emitted', "terminal:error")
            /\ (ConnClose(a) \/ ConnEnd(a) \/ TerminalDisconnect(obj[a].socketId))
                 => /\ HasEvent(emitted', "terminal:disconnected")
                    /\ ~HasEvent(emitted', "terminal:error")]_vars

\* The connect timer has just ended a connecting session with its error.
C3_TimedOut ==
  \E a \in Attempts :
    /\ obj[a].timedOut
    /\ obj[a].age = 30000
    /\ emitted = <<Message(obj[a].socketId, "terminal:error", "Connection timeout", 0)>>

\* C4: an input received before terminal:connected was sent for the session
\* of its channel is never written to a shell; this includes the inputs
\* received between SSH 'ready' and the opening of the shell.
C4_EarlyInputDropped ==
  \A a \in Attempts : \A k \in 1..Len(shellIn[a]) : shellIn[a][k] \notin hist.early

\* An input arrived between 'ready' and the shell, and a later one was
\* written.
C4_InputInWindow ==
  /\ hist.window # {}
  /\ \E a \in Attempts : Len(shellIn[a]) > 0

\* What the client received of the chunks session a produced while Connected.
DeliveredOut(a) ==
  LET wanted(x) ==
        /\ x[1] = a
        /\ \E i \in 1..Len(obj[a].expectOut) : obj[a].expectOut[i] = x[2]
  IN SelectSeq(clientOut[obj[a].socketId], wanted)

\* C5: while a session is Connected and until an exit path is triggered,
\* the inputs received are written to its shell once each and in the order
\* received, and the chunks its shell produces are sent to the client once
\* each and in the order produced.
C5_InOrderOnce ==
  \A a \in Attempts :
    obj[a].alloc =>
      /\ shellIn[a] = obj[a].expectIn
      /\ DeliveredOut(a) =
           [i \in 1..Len(obj[a].expectOut) |-> <<a, obj[a].expectOut[i]>>]

\* Two inputs were written and two chunks delivered on one session.
C5_TwoEachWay ==
  \E a \in Attempts :
    /\ Len(obj[a].expectIn) = 2 /\ Len(shellIn[a]) = 2
    /\ Len(obj[a].expectOut) = 2 /\ Len(DeliveredOut(a)) = 2

C7_BusyRejected ==
  [][\A s \in Sockets, credentials \in ClientCredentials :
       (/\ TerminalConnect(s, credentials)
        /\ hist.sinceAdmitted[s] >= 2000
        /\ (Connecting(s) \/ Connected(s)))
         => /\ emitted' = <<Message(s, "terminal:error", AlreadyConnecting, 0)>>
            /\ UNCHANGED <<activeSessions, obj, nextAttempt, shellIn>>]_vars

\* A connect has just been rejected on a channel whose session is Connected.
C7_RejectedWhileConnected ==
  \E s \in Sockets :
    /\ emitted = <<Message(s, "terminal:error", AlreadyConnecting, 0)>>
    /\ Connected(s)

\* C8: while a channel is busy (its session Connecting or Connected, or a
\* container creation of it in progress) no container creation starts for
\* it, and its session is not replaced by another one.
C8_CreateRejectedWhileBusy ==
  [][\A s \in Sockets :
       (Connecting(s) \/ Connected(s) \/ creating[s] > 0) =>
         /\ creating'[s] <= creating[s]
         /\ ~HasEvent(emitted', "terminal:container-creating")
         /\ (Connecting(s) \/ Connected(s))
              => activeSessions'[s] \in {0, activeSessions[s]}]_vars

\* C9: terminal:disconnect on a container session closes the SSH transport
\* and stops no container: the container records and their association
\* with channels are as before.
C9_DisconnectKeepsContainer ==
  [][\A s \in Sockets :
       (/\ TerminalDisconnect(s)
        /\ activeSessions[s] # 0
        /\ obj[activeSessions[s]].containerId # 0)
         => /\ obj'[activeSessions[s]].connEnded
            /\ activeContainers' = activeContainers
            /\ sessionContainers' = sessionContainers]_vars

\* After a user disconnect from container c, a later connect with the
\* container's credentials is Connected again, the container still there.
C9_Reconnected ==
  \E s \in Sockets : \E a \in Attempts :
    /\ activeSessions[s] = a
    /\ obj[a].isConnected /\ obj[a].announced
    /\ obj[a].containerId \in hist.userLeft[s]
    /\ obj[a].containerId \in activeContainers

\* C10 as the specification states it: after terminal:disconnect the
\* session still exists, Idle, with the same containerId.
C10_RecordKept ==
  [][\A s \in Sockets :
       (TerminalDisconnect(s) /\ activeSessions[s] # 0)
         => /\ activeSessions'[s] = activeSessions[s]
            /\ ~obj'[activeSessions[s]].isConnecting
            /\ ~obj'[activeSessions[s]].isConnected
            /\ obj'[activeSessions[s]].containerId = obj[activeSessions[s]].containerId]_vars

\* C10: terminal:disconnect removes the session record of the channel from
\* activeSessions; the container the session referenced keeps its record
\* and its association with the channel, and the containerId of a session
\* object never changes.
C10_RecordRemoved ==
  /\ [][\A s \in Sockets :
          (TerminalDisconnect(s) /\ activeSessions[s] # 0)
            => /\ activeSessions'[s] = 0
               /\ obj[activeSessions[s]].containerId # 0
                    => /\ (obj[activeSessions[s]].containerId \in activeContainers')
                            = (obj[activeSessions[s]].containerId \in activeContainers)
                       /\ sessionContainers'[obj[activeSessions[s]].containerId]
                            = sessionContainers[obj[activeSessions[s]].containerId]]_vars
  /\ [][\A a \in Attempts :
          obj[a].alloc => obj'[a].containerId = obj[a].containerId]_vars

\* The user has just disconnected from a container session: the channel has
\* no session, the container is still recorded and associated with it.
C10_DisconnectedFromContainer ==
  \E s \in Sockets : \E c \in hist.userLeft[s] :
    /\ activeSessions[s] = 0
    /\ emitted = <<Message(s, "terminal:disconnected", "manual_disconnect", 0)>>
    /\ c \in activeContainers
    /\ sessionContainers[c] = s

\* C11: end-session for a channel whose session is Connected to a container
\* destroys the session record, closes its SSH transport and removes the
\* container from the container map, and no terminal:input received on the
\* channel afterwards is written to that session's shell.
C11_EndSessionDestroys ==
  /\ [][\A s \in Sockets, failing \in SUBSET ContainerIds :
          (/\ EndSession(s, failing)
           /\ Connected(s)
           /\ obj[activeSessions[s]].announced
           /\ obj[activeSessions[s]].containerId # 0)
            => /\ activeSessions'[s] = 0
               /\ obj'[activeSessions[s]].connEnded
               /\ obj[activeSessions[s]].containerId \notin activeContainers']_vars
  /\ [][\A a \in hist.ended : shellIn'[a] = shellIn[a]]_vars

\* C12: every session in the session map whose containerId is set refers
\* to a container record that exists in the container manager's map, unless
\* end-session was invoked on it.
C12_ContainerRecordExists ==
  \A s \in Sockets :
    (/\ activeSessions[s] # 0
     /\ obj[activeSessions[s]].containerId # 0
     /\ activeSessions[s] \notin hist.ended)
      => obj[activeSessions[s]].containerId \in activeContainers

\* C13: no session object is flagged isConnecting and isConnected at the
\* same time.
C13_NotBothFlags ==
  \A a \in Attempts : ~(obj[a].isConnecting /\ obj[a].isConnected)

\* A session that was Connecting is Connected, with its shell open.
C13_BecameConnected ==
  \E a \in Attempts :
    obj[a].alloc /\ obj[a].sshReady /\ obj[a].isConnected /\ obj[a].chan = "open"

\* Session object a has been removed from the session map.
Removed(a) == obj[a].alloc /\ activeSessions[obj[a].socketId] # a

\* C14: a session that has been removed from the session map has no
\* listener left on its SSH connection or on its shell stream, its
\* connection has been closed, and none of its listeners runs afterwards.
C14_RemovedHasNoListeners ==
  /\ [](\A a \in Attempts :
          Removed(a) =>
            /\ ~obj[a].connListeners
            /\ ~obj[a].streamListeners
            /\ obj[a].connEnded)
  /\ [][\A a \in Attempts :
          Removed(a) =>
            ~(StreamClose(a) \/ StreamError(a) \/ StreamData(a) \/ StderrData(a))]_vars


\* C15: over any sequence of container creations the image build runs
\* exactly once: a second creation, in sequence or concurrent with the
\* first, starts no docker build of its own.
C15_SingleBuild == builds <= 1

\* C16: when a creation fails after its container was started (the SSH
\* service never became ready), the started container is stopped and gets
\* no record, and no container runs without a record unless a creation in
\* progress still holds it.
C16_FailedCreationRollsBack ==
  /\ [][\A j \in JobSlots :
          SSHNotReady(j) => /\ jobs[j].cid \notin running'
                            /\ jobs[j].cid \notin activeContainers']_vars
  /\ [](\A c \in running :
          c \in activeContainers \/ \E j \in JobSlots : jobs[j].cid = c)

\* C17: stopping an id the manager never knew, or a container the runtime
\* no longer has, succeeds without an error, and afterwards there is no
\* record for that id.
C17_StopUnknownSucceeds ==
  [][\A c \in RequestIds :
       (DeleteContainer(c, {}) /\ c \notin running)
         => reply'.ok /\ c \notin activeContainers']_vars

\* C18: after the idle-container sweep no record remains that was idle for
\* more than the limit, and the count it returns is the number of
\* containers it stopped and removed.
C18_ReapIdleRemovesAndCounts ==
  [][\A failing \in SUBSET ContainerIds :
       CleanupIdleContainers(failing)
         => /\ \A c \in activeContainers :
                 containerIdle[c] > IDLE_TIMEOUT => c \notin activeContainers'
            /\ reply'.count = Cardinality(activeContainers \ activeContainers')]_vars


\* C19: the idle-session sweep removes every session idle for more than 30
\* minutes, with its transport closed and terminal:disconnected with reason
\* idle_timeout sent to its client; a session idle for 30 minutes or less
\* is left as it was.
C19_IdleSessionSweep ==
  [][CleanupIdleSessions =>
       \A s \in Sockets :
         LET a == activeSessions[s] IN
         a # 0 =>
           IF obj[a].idle > IDLE_TIMEOUT
             THEN /\ activeSessions'[s] = 0
                  /\ obj'[a].connEnded
                  /\ \E i \in 1..Len(emitted') :
                       emitted'[i] = Message(s, "terminal:disconnected", "idle_timeout", 0)
             ELSE /\ activeSessions'[s] = a
                  /\ obj'[a] = obj[a]
                  /\ \A i \in 1..Len(emitted') : emitted'[i].to # s]_vars

\* Witness of C19: the sweep has just removed a session that was idle for
\* more than 30 minutes.
C19_SweptIdleSession ==
  /\ reply.kind = "sweep" /\ reply.count = 1
  /\ HasText(emitted, "terminal:disconnected", "idle_timeout")
  /\ \E a \in Attempts : obj[a].alloc /\ obj[a].idle > IDLE_TIMEOUT /\ Removed(a)

\* C20: the health sweep destroys a session whose channel is not live;
\* otherwise destroys one Connecting for more than 60 s after sending
\* terminal:error 'Connection timed out'; otherwise destroys one idle for
\* more than 30 minutes and notifies its client with reason inactive and
\* with no other reason; every other session is left as it was.
C20_HealthSweep ==
  [][CheckConnectionHealth =>
       \A s \in Sockets :
         LET a == activeSessions[s] IN
         a # 0 =>
           IF s \notin sockets
             THEN activeSessions'[s] = 0
           ELSE IF Connecting(s) /\ obj[a].age > STUCK_CONNECTING
             THEN /\ HasText(emitted', "terminal:error", "Connection timed out")
                  /\ activeSessions'[s] = 0
           ELSE IF obj[a].idle > IDLE_TIMEOUT
             THEN /\ activeSessions'[s] = 0
                  /\ HasText(emitted', "terminal:disconnected", "inactive")
                  /\ \A i \in 1..Len(emitted') :
                       (emitted'[i].to = s /\ emitted'[i].ev = "terminal:disconnected")
                         => emitted'[i].text = "inactive"
           ELSE /\ activeSessions'[s] = a
                /\ obj'[a] = obj[a]]_vars


\* C21: when SIGINT or SIGTERM triggers shutdown, by the time the process
\* returns the sweep timers are stopped and never fire again, every live
\* channel with a session has been sent terminal:disconnected with reason
\* server_shutdown, the SSH transport of every session is closed, and every
\* container of the container map is stopped and its record removed.
C21_ShutdownCleansUp ==
  /\ [][Signal =>
          /\ ~server'.cleanupInterval /\ ~server'.healthInterval
          /\ \A s \in Sockets :
               activeSessions[s] # 0 =>
                 /\ obj'[activeSessions[s]].connEnded
                 /\ s \in sockets =>
                      \E i \in 1..Len(emitted') :
                        emitted'[i] = Message(s, "terminal:disconnected",
                                              "server_shutdown", 0)
          /\ activeContainers' = {}
          /\ activeContainers \cap running' = {}]_vars
  /\ [][server.exited => ~(CleanupIdleSessions \/ CheckConnectionHealth)]_vars


\* C22 as claimed: a terminal:disconnect on a channel whose session is
\* Connected sends terminal:disconnected with reason user_disconnect to
\* that client.
C22_UserDisconnectReason ==
  [][\A s \in Sockets :
       (TerminalDisconnect(s) /\ Connected(s))
         => \E i \in 1..Len(emitted') :
              emitted'[i] = Message(s, "terminal:disconnected", "user_disconnect", 0)]_vars

\* C22 as amended: a terminal:disconnect on a channel whose session is
\* Connected sends terminal:disconnected with reason manual_disconnect to
\* that client.
C22_ManualDisconnectReason ==
  [][\A s \in Sockets :
       (TerminalDisconnect(s) /\ Connected(s))
         => \E i \in 1..Len(emitted') :
              emitted'[i] = Message(s, "terminal:disconnected", "manual_disconnect", 0)]_vars

\* Witness of C22: the first session of a channel was Connected and has
\* just been ended by the user's terminal:disconnect.
C22_UserDisconnected ==
  \E s \in Sockets :
    /\ obj[1].alloc /\ obj[1].socketId = s /\ obj[1].announced /\ Removed(1)
    /\ nextAttempt = 2
    /\ emitted = <<Message(s, "terminal:disconnected", "manual_disconnect", 0)>>


\* The reason codes the specification lists for terminal:disconnected.
CanonicalReasons ==
  {"user_disconnect", "client_disconnect", "stream_closed", "connection_closed",
   "connection_ended", "idle_timeout", "inactive", "force_disconnect",
   "server_shutdown", "manual_disconnect", "end_session"}

\* C23: every terminal:disconnected message the server emits, on any path,
\* carries a reason of the canonical set.
C23_ReasonsCanonical ==
  \A i \in 1..Len(emitted) :
    emitted[i].ev = "terminal:disconnected" => emitted[i].text \in CanonicalReasons


\* C24: every failure inside a session (an SSH connection error, a failure
\* to open the shell, an error of the stream, an exception while the
\* connection is set up) sends terminal:error to the client and tears the
\* session down: afterwards the session is not in the session map and its
\* transport is closed.
C24_FailureTearsDown ==
  /\ [][\A a \in Attempts :
          (ShellFailed(a) \/ StreamError(a) \/ \E err \in ErrorKinds : ConnError(a, err))
            => /\ obj[a].socketId \in sockets => HasEvent(emitted', "terminal:error")
               /\ activeSessions'[obj[a].socketId] # a
               /\ obj'[a].connEnded]_vars
  /\ [][\A s \in Sockets :
          SetupError(s, KeyCredentials)
            => /\ HasText(emitted', "terminal:error", "Setup error")
               /\ activeSessions'[s] = 0
               /\ obj'[nextAttempt].alloc /\ obj'[nextAttempt].connEnded]_vars

\* Witness of C24: a session whose shell failed to open has been reported
\* to its client and torn down.
C24_ShellFailureTornDown ==
  \E a \in Attempts :
    /\ obj[a].alloc /\ obj[a].chan = "failed" /\ Removed(a) /\ obj[a].connEnded
    /\ emitted = <<Message(obj[a].socketId, "terminal:error", "Shell error", 0)>>


\* The reason the claim expects for each refused credentials record.
SpecificReason(credentials) ==
  CASE Trim(credentials.host) = "" -> "Host is required"
    [] credentials.port \notin 1..65535 -> "Valid port number (1-65535) is required"
    [] Trim(credentials.username) = "" -> "Username is required"
    [] credentials.useKeyAuth -> "Private key is required for key authentication"
    [] OTHER -> "Password is required"

\* C25: a terminal:connect whose credentials fail validation is answered
\* with terminal:error and leaves the sessions as they are: no session
\* record is created, modified or removed, no SSH attempt and no connect
\* timer is started.  When the request gets as far as the validation (the
\* channel is neither rate limited nor busy) the error is the specific
\* reason of the validation.
C25_InvalidConnectNoEffect ==
  [][\A s \in Sockets, credentials \in RejectedCredentials :
       TerminalConnect(s, credentials)
         => /\ activeSessions' = activeSessions
            /\ obj' = obj
            /\ nextAttempt' = nextAttempt
            /\ Len(emitted') = 1 /\ emitted'[1].ev = "terminal:error"
            /\ (/\ sinceLastAttempt[s] >= MIN_CONNECTION_INTERVAL
                /\ ~Connecting(s) /\ ~Connected(s))
                 => emitted'[1] = Message(s, "terminal:error",
                                          SpecificReason(credentials), 0)]_vars

\* Witness of C25: a connect with an unusable port has just been refused
\* by the validation.
C25_PortRefused ==
  /\ emitted = <<Message(1, "terminal:error",
                         "Valid port number (1-65535) is required", 0)>>
  /\ activeSessions[1] = 0


\* C26: for a terminal:create-container that succeeds the client receives
\* terminal:container-creating, then terminal:container-created, then
\* terminal:connected with the containerId of container-created; the
\* terminal:connected of the request never comes before its
\* terminal:container-created.
C26_CreatingCreatedConnected ==
  /\ [](\A p \in hist.createdSent : p[1] \in hist.creatingSent)
  /\ [][\A a \in Attempts, c \in ContainerIds :
          (ShellOpened(a) /\ <<a, c>> \in hist.auto)
            => /\ <<obj[a].socketId, c>> \in hist.createdSent
               /\ \A i \in 1..Len(emitted') :
                    emitted'[i].ev = "terminal:connected" => emitted'[i].cid = c]_vars

\* Witness of C26: the session a create-container request connected has
\* been announced to the client with terminal:connected.
C26_ContainerSessionConnected ==
  \E a \in Attempts, c \in ContainerIds :
    /\ <<a, c>> \in hist.auto
    /\ obj[a].announced
    /\ emitted = <<Message(obj[a].socketId, "terminal:connected", "", c)>>


\* C27: when container creation fails during terminal:create-container the
\* client receives terminal:error 'Failed to create container: <detail>',
\* the request creates no session record and schedules no connect, and the
\* channel is Idle afterwards: it has no session and no other attempt.
C27_FailedCreateLeavesIdle ==
  [][\A s \in Sockets :
       (ContainerCreateFailed(s) /\ s \in sockets)
         => /\ emitted' = <<Message(s, "terminal:error", "Failed to create container", 0)>>
            /\ activeSessions'[s] = activeSessions[s]
            /\ delayed' = delayed
            /\ activeSessions'[s] = 0
            /\ InFlight(s)' = 0]_vars


\* C28: a Connected container session that sees no activity is eventually
\* destroyed by the idle-session sweep and its container stopped by the
\* idle-container sweep: the session map and the container map both become
\* empty.
C28_IdleSessionAndContainerReaped ==
  \A s \in Sockets, c \in ContainerIds :
    (Connected(s) /\ obj[activeSessions[s]].containerId = c /\ c \in activeContainers)
      ~> ((\A t \in Sockets : activeSessions[t] = 0) /\ activeContainers = {})


\* C29: once a channel has closed no session record exists for it in any
\* later state, even when a create-container or its delayed connect was in
\* flight at the close; and the close of a channel stops no container.
C29_ClosedChannelHasNoSession ==
  /\ [](\A s \in everOpened \ sockets : activeSessions[s] = 0)
  /\ [][\A s \in Sockets :
          SocketDisconnect(s)
            => /\ activeSessions'[s] = 0
               /\ running' = running
               /\ activeContainers' = activeContainers]_vars

\* Witness of C29: a channel closed while its create-container or delayed
\* connect was in flight; the creation has since succeeded and its delayed
\* connect has fired, and the container is still there.
C29_ClosedDuringCreate ==
  \E s \in hist.closedBusy, c \in activeContainers :
    /\ sessionContainers[c] = s
    /\ creating[s] = 0
    /\ \A d \in delayed : d.socketId # s
    /\ c \in running


\* C30: every terminal:input forwarded to the shell and every chunk of
\* shell output, stdout or stderr, on a session with a containerId resets
\* both the session's and the container's lastActivity.
C30_ActivityAdvancesBoth ==
  /\ [][\A a \in Attempts :
          ( /\ StreamData(a) \/ StderrData(a)
            /\ activeSessions[obj[a].socketId] = a
            /\ obj[a].containerId \in activeContainers )
            => /\ obj'[a].idle = 0
               /\ containerIdle'[obj[a].containerId] = 0]_vars
  /\ [][\A s \in Sockets :
          ( /\ TerminalInput(s)
            /\ activeSessions[s] # 0
            /\ shellIn' # shellIn
            /\ obj[activeSessions[s]].containerId \in activeContainers )
            => /\ obj'[activeSessions[s]].idle = 0
               /\ containerIdle'[obj[activeSessions[s]].containerId] = 0]_vars


\* C31: terminal:resize calls the shell's resize only when the session is
\* Connected and both cols and rows are positive; when a dimension is zero,
\* negative or missing, or the session is not Connected, the resize is
\* ignored and nothing changes.
C31_ResizeOnlyPositive ==
  [][\A s \in Sockets, size \in ResizeSizes :
       TerminalResize(s, size)
         => \/ /\ Connected(s) /\ size.given
               /\ size.cols.kind = "number" /\ size.cols.n > 0
               /\ size.rows.kind = "number" /\ size.rows.n > 0
            \/ obj' = obj /\ activeSessions' = activeSessions]_vars


\* C32: when a user-initiated teardown (terminal:disconnect or channel
\* close) and a sweep target the same session, the session is torn down
\* once: a sweep leaves a session the user tore down alone and sends its
\* channel nothing, and a user teardown of a session that is already absent
\* closes nothing, emits nothing and changes no session.
C32_SecondTeardownNoOp ==
  /\ [][(CleanupIdleSessions \/ CheckConnectionHealth)
          => \A a \in hist.userTore :
               /\ obj'[a] = obj[a]
               /\ activeSessions[obj[a].socketId] = 0
                    => /\ activeSessions'[obj[a].socketId] = 0
                       /\ \A i \in 1..Len(emitted') : emitted'[i].to # obj[a].socketId]_vars
  /\ [][\A s \in Sockets :
          ((TerminalDisconnect(s) \/ SocketDisconnect(s)) /\ activeSessions[s] = 0)
            => /\ emitted' = <<>>
               /\ obj' = obj
               /\ activeSessions' = activeSessions]_vars

\* Witness of C32: the user tore down a session idle for more than the
\* limit, and a sweep that ran afterwards found nothing to do.
C32_SweepAfterUserTeardown ==
  \E a \in hist.userTore :
    /\ obj[a].idle > IDLE_TIMEOUT
    /\ activeSessions[obj[a].socketId] = 0
    /\ reply.kind \in {"sweep", "health"}
    /\ reply.count = 0
    /\ emitted = <<>>


\* C33: a 30 s connect timer or a 60 s stuck-connecting check that fires
\* after its session has left Connecting (it connected, failed, was
\* disconnected by the user or was replaced) does nothing: it emits no
\* 'Connection timeout' / 'Connection timed out' error and tears no session
\* down.
C33_LateTimerDoesNothing ==
  /\ [][\A a \in Attempts :
          (ConnectionTimeout(a) /\ ~(activeSessions[obj[a].socketId] = a /\ obj[a].isConnecting))
            => /\ emitted' = <<>>
               /\ activeSessions' = activeSessions
               /\ obj' = [obj EXCEPT ![a].timer = FALSE]]_vars
  /\ [][CheckConnectionHealth
          => \A s \in sockets :
               ~Connecting(s)
                 => /\ \A i \in 1..Len(emitted') :
                         ~(emitted'[i].to = s /\ emitted'[i].ev = "terminal:error")
                    /\ (activeSessions[s] # 0 /\ obj[activeSessions[s]].idle <= IDLE_TIMEOUT)
                         => /\ activeSessions'[s] = activeSessions[s]
                            /\ obj'[activeSessions[s]] = obj[activeSessions[s]]]_vars

\* Witness of C33: the connect timer of a session torn down while it was
\* connecting has fired at 30 s and done nothing.
C33_TimerFiredOnRemoved ==
  \E a \in Attempts :
    /\ Removed(a)
    /\ ~obj[a].timer /\ obj[a].age = CONNECTION_TIMEOUT
    /\ ~obj[a].timedOut /\ ~obj[a].sshReady
    /\ emitted = <<>>


\* C34: when two concurrent container creations were handed the same host
\* port, the one whose docker run finds the port taken retries through the
\* allocator with another port, so that both end with records on distinct
\* ports.
C34_PortRaceLoserRetries ==
  /\ [][\A j \in JobSlots :
          ((\E code \in {0, 1} : RunClose(j, code)) /\ jobs[j].port \in BoundPorts(Heap))
            => /\ jobs'[j].phase = "run"
               /\ jobs'[j].port \notin {portOf'[c] : c \in running'}]_vars
  /\ [](\A c, d \in activeContainers \cap running : c # d => portOf[c] # portOf[d])


\* C35: the containersCleanedUp value end-session returns is the number of
\* containers of that session the call stopped and removed from the
\* container map; a container whose stop failed is not counted.
C35_EndSessionCountsStopped ==
  [][\A s \in Sockets, failing \in SUBSET ContainerIds :
       EndSession(s, failing)
         => reply'.count =
              Cardinality({c \in ContainerIds :
                             /\ sessionContainers[c] = s
                             /\ c \in activeContainers
                             /\ c \notin activeContainers'})]_vars


\* An event of session object a: one of its SSH connection's events, its
\* shell callback, an event of its stream, or its connect timer.
EventOf(a) ==
  \/ ConnReady(a) \/ ShellOpened(a) \/ ShellFailed(a)
  \/ \E err \in ErrorKinds : ConnError(a, err)
  \/ ConnClose(a) \/ ConnEnd(a)
  \/ StreamData(a) \/ StderrData(a) \/ StreamClose(a) \/ StreamError(a)
  \/ ConnectionTimeout(a)

\* C36: an event that belongs to an earlier attempt on a channel never
\* tears down or modifies a later session of that channel, and sends the
\* channel no terminal:connected, terminal:output or terminal:disconnected
\* on its behalf.
C36_OldEventsSpareNewSession ==
  [][\A a, b \in Attempts :
       ( /\ EventOf(a)
         /\ a # b /\ Removed(a)
         /\ activeSessions[obj[a].socketId] = b )
         => /\ activeSessions'[obj[a].socketId] = b
            /\ obj'[b] = obj[b]
            /\ clientOut'[obj[a].socketId] = clientOut[obj[a].socketId]
            /\ \A i \in 1..Len(emitted') :
                 emitted'[i].ev \notin {"terminal:connected", "terminal:disconnected"}]_vars


\* C37: terminal:connected is emitted only for a session that is in the
\* session map and Connected at that moment; when the session was torn down
\* between SSH 'ready' and the shell callback, the callback emits no
\* terminal:connected and attaches no stream to the dead session.
C37_ConnectedOnlyForLiveSession ==
  [][\A a \in Attempts :
       ShellOpened(a)
         => IF Removed(a)
              THEN /\ \A i \in 1..Len(emitted') : emitted'[i].ev # "terminal:connected"
                   /\ ~obj'[a].stream
              ELSE HasEvent(emitted', "terminal:connected")
                     => /\ activeSessions'[obj[a].socketId] = a
                        /\ obj'[a].isConnected]_vars


\* C38: a session teardown sends the client at most one
\* terminal:disconnected, on every teardown path: no step sends a socket
\* more than one.
C38_OneDisconnectedPerTeardown ==
  \A s \in Sockets :
    Cardinality({i \in 1..Len(emitted) :
                   emitted[i].to = s /\ emitted[i].ev = "terminal:disconnected"}) <= 1


\* C39: the idle-container sweep never stops a container whose
\* lastActivity is within maxIdle at the moment its stop is issued: a
\* container that had activity after the sweep selected it, while the sweep
\* awaited the stop of an earlier container, is not stopped.
C39_SweepRechecksIdle ==
  [][(sweepQueue' # <<>> /\ sweepQueue' # sweepQueue)
       => containerIdle'[Head(sweepQueue')] > IDLE_TIMEOUT]_vars


\* C40: in every reachable state each entry of the session-to-container
\* association map refers to a container that has a record in the container
\* manager's map: the association goes whenever its container is stopped.
C40_AssociationHasRecord ==
  \A c \in ContainerIds : sessionContainers[c] # 0 => c \in activeContainers

=============================================================================
